---------------------------- MODULE Spec2Model ----------------------------
(***************************************************************************)
(* A model of the file-backed agent memory of                              *)
(* src/raw_agent_with_memory/agent_with_memory.py (class AgentMemory).     *)
(*                                                                         *)
(* Representation.                                                         *)
(*   - A Python str is a sequence of one-character strings, so that        *)
(*     lower(), split() and the `in` substring test are computed.          *)
(*   - An Optional[str] is None (the empty sequence) or <<s>>.             *)
(*   - datetime.now().isoformat() is an integer clock reading: isoformat   *)
(*     strings of one clock compare (as str) exactly as their instants do. *)
(*   - An importance is counted in tenths: 1.0 is 10 and 0.9 is 9.         *)
(*   - A dict is the sequence of its entries in insertion order.           *)
(***************************************************************************)
EXTENDS Integers, Sequences, FiniteSets, TLC

VARIABLES
    facts,               \* self.facts
    procedures,          \* self.procedures (entries in insertion order)
    conversations,       \* self.conversations
    working_memory,      \* self.working_memory
    pytype,              \* the Python type of each of the three loaded attributes
    facts_file,          \* <storage_dir>/facts_semantic.json
    procedures_file,     \* <storage_dir>/procedures.json
    conversations_file,  \* <storage_dir>/conversations_episodic.json
    alive,               \* whether the last construction of the store succeeded
    storage,             \* whether the storage directory takes writes: "ok" or "failing"
    now,                 \* the last reading of the wall clock
    call,                \* the last call made on the store and its arguments
    result,              \* how that call ended and what it returned
    old,                 \* the store just before the last call that was no mere read
    second,              \* a second AgentMemory on the same storage directory: its facts
    tmp,                 \* the files of /tmp, the directory of the scraper
    fetched              \* the URLs that the scraper has requested, in order

disk  == <<facts_file, procedures_file, conversations_file>>
\* what is outside the store: the other store on its directory, and the scraper
outside == <<second, tmp, fetched>>
vars  == <<facts, procedures, conversations, working_memory, pytype,
           facts_file, procedures_file, conversations_file,
           alive, storage, now, call, result, old, second, tmp, fetched>>

----------------------------------------------------------------------------
(* Bounds of the model *)

MaxTime == 1

Times == 0..MaxTime

----------------------------------------------------------------------------
(* Python strings *)

Range(s) == {s[i] : i \in 1..Len(s)}

UpperCase == <<"A","B","C","D","E","F","G","H","I","J","K","L","M",
               "N","O","P","Q","R","S","T","U","V","W","X","Y","Z">>
LowerCase == <<"a","b","c","d","e","f","g","h","i","j","k","l","m",
               "n","o","p","q","r","s","t","u","v","w","x","y","z">>

Whitespace == {" ", "\t", "\n"}

ToLower == [c \in Range(UpperCase) |-> LowerCase[CHOOSE k \in 1..26 : UpperCase[k] = c]]

lower_char(c) == IF c \in DOMAIN ToLower THEN ToLower[c] ELSE c

\* str.lower()
lower(s) == [i \in 1..Len(s) |-> lower_char(s[i])]

\* str.split() with no separator: the maximal runs of non-whitespace, in order
split(s) ==
    LET n == Len(s)
        IsStart(i) == s[i] \notin Whitespace /\ (i = 1 \/ s[i-1] \in Whitespace)
        EndOf(i)   == CHOOSE j \in i..n :
                         /\ \A k \in i..j : s[k] \notin Whitespace
                         /\ (j = n \/ s[j+1] \in Whitespace)
        f[i \in 0..n] ==
            IF i = 0 THEN <<>>
            ELSE IF IsStart(i) THEN Append(f[i-1], SubSeq(s, i, EndOf(i)))
            ELSE f[i-1]
    IN f[n]

\* the `in` operator on two str: t occurs in s as a substring
contains(s, t) ==
    \E i \in 0..(Len(s) - Len(t)) : \A k \in 1..Len(t) : s[i + k] = t[k]

None == <<>>
Some(s) == <<s>>

----------------------------------------------------------------------------
(* JSON files *)

\* A Python value inside a conversation's metadata is [type, items] with type
\* "str", "list" or "tuple"; a JSON value is [type, items] with type "string" or
\* "array".  Every other stored field is a str, None, the int 0 or a list of
\* str, which json.dump writes and json.load reads back as they were.
\* A file is [kind, type, items]: kind "missing", "json" (a JSON document of
\* type "array", "object" or "null" with these items), "invalid" (text that is
\* not JSON) or "undecodable" (bytes that are not text).

\* json.dump of one metadata value: a list and a tuple are both written as an array
json_value(v) ==
    [type  |-> IF v.type = "str" THEN "string" ELSE "array",
     items |-> v.items]

\* json.load of one metadata value: an array is read as a list
py_value(j) ==
    [type  |-> IF j.type = "string" THEN "str" ELSE "list",
     items |-> j.items]

json_object(d) == [i \in 1..Len(d) |-> [key |-> d[i].key, value |-> json_value(d[i].value)]]
py_dict(o)     == [i \in 1..Len(o) |-> [key |-> o[i].key, value |-> py_value(o[i].value)]]

\* json.dump / json.load of one element of a collection
dump_item(x) ==
    IF "metadata" \in DOMAIN x THEN [x EXCEPT !.metadata = json_object(@)] ELSE x
load_item(x) ==
    IF "metadata" \in DOMAIN x THEN [x EXCEPT !.metadata = py_dict(@)] ELSE x

MissingFile == [kind |-> "missing", type |-> "", items |-> <<>>]

\* (mutant) the file holds the last element only, as a write that appends would
\* leave in a new file
save_json_LastOnly(type, items) ==
    [kind  |-> "json",
     type  |-> IF type = "list" THEN "array" ELSE IF type = "dict" THEN "object" ELSE "null",
     items |-> [i \in 1..(IF items = <<>> THEN 0 ELSE 1) |-> dump_item(items[Len(items)])]]

\* _save_json: the file now holds the whole collection
save_json(type, items) ==
    [kind  |-> "json",
     type  |-> IF type = "list" THEN "array" ELSE IF type = "dict" THEN "object" ELSE "null",
     items |-> [i \in 1..Len(items) |-> dump_item(items[i])]]

\* _save_json when the storage fails: open(file_path, "w") raises and the file
\* is as it was, or the file is truncated and the write raises before the
\* document is complete
FailedWrite(file) ==
    {file, [kind |-> "invalid", type |-> "", items |-> <<>>]}

\* (mutant) the file is never read
load_json_AlwaysDefault(file, default) ==
    [raised |-> FALSE, type |-> default, items |-> <<>>]

\* _load_json: [raised, type, items]
load_json(file, default) ==
    CASE file.kind = "missing" ->
            [raised |-> FALSE, type |-> default, items |-> <<>>]
      [] file.kind = "json" ->
            [raised |-> FALSE,
             type   |-> IF file.type = "array" THEN "list"
                        ELSE IF file.type = "object" THEN "dict" ELSE "NoneType",
             items  |-> [i \in 1..Len(file.items) |-> load_item(file.items[i])]]
      [] file.kind = "invalid" ->       \* json.JSONDecodeError is caught
            [raised |-> FALSE, type |-> default, items |-> <<>>]
      [] OTHER ->                       \* any other exception of open/read is not
            [raised |-> TRUE, type |-> default, items |-> <<>>]

----------------------------------------------------------------------------
(* The store *)

working_memory_capacity == 10

Snapshot ==
    [facts |-> facts, procedures |-> procedures, conversations |-> conversations,
     working_memory |-> working_memory, alive |-> alive,
     facts_file |-> facts_file, procedures_file |-> procedures_file,
     conversations_file |-> conversations_file]

Ok(value)  == [status |-> "ok", value |-> value]
Raised     == [status |-> "raised", value |-> <<>>]

\* the OSError of open(file_path, "w") or of the write inside json.dump
RaisedOSError == [status |-> "raised", value |-> <<"OSError">>]

DefaultTypes == [facts |-> "list", procedures |-> "dict", conversations |-> "list"]

\* datetime.now(): a reading of the wall clock at or after the last one
ClockReadings == {t \in Times : t >= now}

\* the paths self.facts_file, self.procedures_file and self.conversations_file
facts_path         == "facts_semantic.json"
procedures_path    == "procedures.json"
conversations_path == "conversations_episodic.json"

\* (mutant) the write goes to every file of the directory
FileAfterSave_AnyPath(path, file_path, data, current) == data

\* the content of the file at `path` after _save_json(data, file_path): the data
\* when it is the file written, what it was otherwise
FileAfterSave(path, file_path, data, current) ==
    IF path = file_path THEN data ELSE current

\* _save_json(data, file_path) on a storage that takes the write
SaveJson(type, items, file_path) ==
    /\ facts_file' = FileAfterSave(facts_path, file_path, save_json(type, items),
                                   facts_file)
    /\ procedures_file' = FileAfterSave(procedures_path, file_path,
                                        save_json(type, items), procedures_file)
    /\ conversations_file' = FileAfterSave(conversations_path, file_path,
                                           save_json(type, items), conversations_file)

\* no second store is open on the directory
NoStore == [open |-> FALSE, type |-> "list", facts |-> <<>>]

\* a store constructed on a fresh storage directory
Init ==
    /\ facts = <<>>
    /\ procedures = <<>>
    /\ conversations = <<>>
    /\ working_memory = <<>>
    /\ pytype = DefaultTypes
    /\ facts_file = MissingFile
    /\ procedures_file = MissingFile
    /\ conversations_file = MissingFile
    /\ alive = TRUE
    /\ second = NoStore
    /\ tmp = {}
    /\ fetched = <<>>
    /\ storage = "ok"
    /\ now = 0
    /\ call = [op |-> "__init__"]
    /\ result = Ok(<<>>)
    /\ old = [facts |-> <<>>, procedures |-> <<>>, conversations |-> <<>>,
              working_memory |-> <<>>, alive |-> FALSE,
              facts_file |-> MissingFile, procedures_file |-> MissingFile,
              conversations_file |-> MissingFile]

\* (mutant) the key without the timestamp
KeyLess_ImportanceOnly(x, y) == x.importance < y.importance

\* the sort key of add_to_working_memory and generate_context_for_llm:
\* (importance, timestamp), compared as a Python tuple
KeyLess(x, y) ==
    \/ x.importance < y.importance
    \/ x.importance = y.importance /\ x.timestamp < y.timestamp

\* self.working_memory.sort(key=...): list.sort is stable, computed here as the
\* insertion of each item behind the items whose key is not above its own
SortWorkingMemory(wm) ==
    LET ins(sorted, x) ==
            LET k == Cardinality({i \in 1..Len(sorted) : ~ KeyLess(x, sorted[i])})
            IN SubSeq(sorted, 1, k) \o <<x>> \o SubSeq(sorted, k + 1, Len(sorted))
        f[n \in 0..Len(wm)] == IF n = 0 THEN <<>> ELSE ins(f[n-1], wm[n])
    IN f[Len(wm)]

\* (mutant) over capacity, the item that was inserted first is removed
AddToWorkingMemory_EvictOldest(wm, content, importance, t) ==
    LET appended == Append(wm, [content |-> content, importance |-> importance,
                                timestamp |-> t])
    IN IF Len(appended) > working_memory_capacity
       THEN SubSeq(appended, 2, Len(appended))
       ELSE appended

\* (mutant) the capacity test is lost
AddToWorkingMemory_NoEviction(wm, content, importance, t) ==
    Append(wm, [content |-> content, importance |-> importance, timestamp |-> t])

\* the body of add_to_working_memory on a working memory wm, clock reading t
AddToWorkingMemory(wm, content, importance, t) ==
    LET item == [content |-> content, importance |-> importance, timestamp |-> t]
        appended == Append(wm, item)
    IN IF Len(appended) > working_memory_capacity
       THEN Tail(SortWorkingMemory(appended))
       ELSE appended

add_to_working_memory(content, importance) ==
    /\ alive
    /\ \E t \in ClockReadings :
          /\ now' = t
          /\ working_memory' = AddToWorkingMemory(working_memory, content, importance, t)
          /\ call' = [op |-> "add_to_working_memory", content |-> content,
                      importance |-> importance, timestamp |-> t]
    /\ result' = Ok(<<>>)
    /\ old' = Snapshot
    /\ UNCHANGED <<facts, procedures, conversations, pytype, disk, alive, outside, storage>>

UserPrefix  == <<"U","s","e","r",":"," ">>
AgentPrefix == <<"A","g","e","n","t",":"," ">>

UserImportance  == 10
AgentImportance == 9

\* (mutant) the agent's line is inserted before the user's
UpdateWorkingMemory_AgentFirst(wm, user_message, agent_response, t2, t3) ==
    AddToWorkingMemory(
        AddToWorkingMemory(wm, AgentPrefix \o agent_response, AgentImportance, t2),
        UserPrefix \o user_message, UserImportance, t3)

\* "Also update working memory": the two insertions that end add_conversation
UpdateWorkingMemory(wm, user_message, agent_response, t2, t3) ==
    AddToWorkingMemory(
        AddToWorkingMemory(wm, UserPrefix \o user_message, UserImportance, t2),
        AgentPrefix \o agent_response, AgentImportance, t3)

\* `metadata or {}`
OrEmpty(metadata) == IF metadata = None \/ metadata = Some(<<>>) THEN <<>> ELSE metadata[1]

\* (mutant) the new element is put in front of the list
ListAppend_Front(list, item) == <<item>> \o list

\* list.append(item): the new element is the last one, the others stay
ListAppend(list, item) == Append(list, item)

\* how a call of add_conversation ends in the current state
add_conversation_result ==
    IF pytype.conversations # "list" THEN Raised   \* .append on no list: AttributeError
    ELSE IF storage # "ok" THEN RaisedOSError      \* _save_json raises
    ELSE Ok(<<>>)

\* the body of add_conversation with the clock readings t1, t2, t3 of its three
\* datetime.now() calls: what it does to the store
add_conversation_body(user_message, agent_response, metadata, t1, t2, t3) ==
    LET conversation == [user_message |-> user_message,
                         agent_response |-> agent_response,
                         timestamp |-> t1,
                         metadata |-> OrEmpty(metadata)]
    IN IF pytype.conversations # "list"
       THEN /\ now' = t1
            /\ UNCHANGED <<conversations, disk, working_memory>>
       ELSE IF storage # "ok"
       THEN \* _save_json raises after the append and before the working memory
            \* is updated
            /\ now' = t1
            /\ conversations' = ListAppend(conversations, conversation)
            /\ conversations_file' \in FailedWrite(conversations_file)
            /\ UNCHANGED <<facts_file, procedures_file, working_memory>>
       ELSE /\ now' = t3
            /\ conversations' = ListAppend(conversations, conversation)
            /\ SaveJson("list", conversations', conversations_path)
            /\ working_memory' = UpdateWorkingMemory(working_memory,
                                      user_message, agent_response, t2, t3)

add_conversation(user_message, agent_response, metadata) ==
    /\ alive
    /\ \E t1 \in ClockReadings :
       \E t2 \in {t \in Times : t >= t1} :
       \E t3 \in {t \in Times : t >= t2} :
          /\ add_conversation_body(user_message, agent_response, metadata, t1, t2, t3)
          /\ call' = [op |-> "add_conversation", user_message |-> user_message,
                      agent_response |-> agent_response, metadata |-> metadata,
                      timestamps |-> IF add_conversation_result.status = "ok"
                                     THEN <<t1, t2, t3>> ELSE <<t1, t1, t1>>]
    /\ result' = add_conversation_result
    /\ old' = Snapshot
    /\ UNCHANGED <<facts, procedures, pytype, alive, outside, storage>>

\* the unchanged parts of a call that only reads the store
ReadOnly ==
    UNCHANGED <<facts, procedures, conversations, working_memory, pytype,
                facts_file, procedures_file, conversations_file, alive, outside, storage, now,
                old>>

\* (mutant) add_fact reads the file again and writes what it holds and the new fact
FactsToWrite_Merge(own, file) ==
    IF file.kind = "json"
    THEN [i \in 1..Len(file.items) |-> load_item(file.items[i])] \o <<own[Len(own)]>>
    ELSE own

\* the data that add_fact hands to _save_json: self.facts, the list in the memory
\* of the store that is called, whatever the file holds by now
FactsToWrite(own, file) == own

\* how a call of add_fact ends in the current state
add_fact_result ==
    IF pytype.facts # "list" THEN Raised        \* .append on no list: AttributeError
    ELSE IF storage # "ok" THEN RaisedOSError   \* _save_json raises
    ELSE Ok(<<>>)

\* the body of add_fact with the clock reading t: what it does to the store
add_fact_body(content, category, t) ==
    LET fact == [content |-> content, category |-> category, timestamp |-> t]
    IN /\ now' = t
       /\ IF pytype.facts # "list"
          THEN UNCHANGED <<facts, disk>>
          ELSE /\ facts' = ListAppend(facts, fact)
               /\ IF storage = "ok"
                  THEN SaveJson("list", FactsToWrite(facts', facts_file), facts_path)
                  ELSE /\ facts_file' \in FailedWrite(facts_file)
                       /\ UNCHANGED <<procedures_file, conversations_file>>

add_fact(content, category) ==
    /\ alive
    /\ \E t \in ClockReadings :
          /\ add_fact_body(content, category, t)
          /\ call' = [op |-> "add_fact", content |-> content,
                      category |-> category, timestamp |-> t]
    /\ result' = add_fact_result
    /\ old' = Snapshot
    /\ UNCHANGED <<procedures, conversations, working_memory, pytype, alive, outside, storage>>

\* (mutant) a second add under a known name adds the new steps to the stored ones
StoreProcedure_Merge(procs, procedure) ==
    IF \E i \in 1..Len(procs) : procs[i].name = procedure.name
    THEN [i \in 1..Len(procs) |->
             IF procs[i].name = procedure.name
             THEN [procedure EXCEPT !.steps = procs[i].steps \o @]
             ELSE procs[i]]
    ELSE Append(procs, procedure)

\* self.procedures[name] = procedure: a known key keeps its place in the dict
\* and gets the new value, a new key is added at the end
StoreProcedure(procs, procedure) ==
    IF \E i \in 1..Len(procs) : procs[i].name = procedure.name
    THEN [i \in 1..Len(procs) |->
             IF procs[i].name = procedure.name THEN procedure ELSE procs[i]]
    ELSE Append(procs, procedure)

\* how a call of add_procedure ends in the current state
add_procedure_result ==
    IF pytype.procedures # "dict" THEN Raised   \* item assignment on a list or None
    ELSE IF storage # "ok" THEN RaisedOSError   \* _save_json raises
    ELSE Ok(<<>>)

\* the body of add_procedure with the clock reading t: what it does to the store
add_procedure_body(name, steps, description, t) ==
    LET procedure == [name |-> name, steps |-> steps, description |-> description,
                      timestamp |-> t, usage_count |-> 0]
    IN /\ now' = t
       /\ IF pytype.procedures # "dict"
          THEN UNCHANGED <<procedures, disk>>
          ELSE /\ procedures' = StoreProcedure(procedures, procedure)
               /\ IF storage = "ok"
                  THEN SaveJson("dict", procedures', procedures_path)
                  ELSE /\ procedures_file' \in FailedWrite(procedures_file)
                       /\ UNCHANGED <<facts_file, conversations_file>>

add_procedure(name, steps, description) ==
    /\ alive
    /\ \E t \in ClockReadings :
          /\ add_procedure_body(name, steps, description, t)
          /\ call' = [op |-> "add_procedure", name |-> name, steps |-> steps,
                      description |-> description, timestamp |-> t]
    /\ result' = add_procedure_result
    /\ old' = Snapshot
    /\ UNCHANGED <<facts, conversations, working_memory, pytype, alive, outside, storage>>

\* sum(1 for term in query_terms if term in text), query_terms = query.lower().split()
\* and text already lower-cased
Score(text, query) ==
    LET query_terms == split(lower(query))
    IN Cardinality({i \in 1..Len(query_terms) : contains(text, query_terms[i])})

\* s[:stop]
SliceTo(s, stop) ==
    LET n == Len(s)
        e == IF stop < 0
             THEN (IF n + stop < 0 THEN 0 ELSE n + stop)
             ELSE (IF stop > n THEN n ELSE stop)
    IN SubSeq(s, 1, e)

\* s[start:]
SliceFrom(s, start) ==
    LET n == Len(s)
        b == IF start < 0
             THEN (IF n + start < 0 THEN 0 ELSE n + start)
             ELSE (IF start > n THEN n ELSE start)
    IN SubSeq(s, b + 1, n)

\* results.sort(key=lambda x: <score>, reverse=True) on [item, score] pairs: stable,
\* computed as the insertion of each pair behind the pairs whose score is not
\* below its own
SortReverse(results) ==
    LET ins(sorted, x) ==
            LET k == Cardinality({i \in 1..Len(sorted) : ~ (sorted[i].score < x.score)})
            IN SubSeq(sorted, 1, k) \o <<x>> \o SubSeq(sorted, k + 1, Len(sorted))
        f[n \in 0..Len(results)] == IF n = 0 THEN <<>> ELSE ins(f[n-1], results[n])
    IN f[Len(results)]

\* the elements s[n] with keep[n], in the order of s
SelectSeq2(s, keep) ==
    LET f[n \in 0..Len(s)] ==
            IF n = 0 THEN <<>>
            ELSE IF keep[n] THEN Append(f[n-1], s[n]) ELSE f[n-1]
    IN f[Len(s)]

Items(results) == [i \in 1..Len(results) |-> results[i].item]

\* (mutant) an item of score 0 is kept too
IsMatch_NonNegative(score) == score >= 0

\* if score > 0
IsMatch(score) == score > 0

\* (mutant) the sort is forgotten: matches come back in insertion order
SearchByTerms_Unsorted(items, texts, query, limit) ==
    LET scored == [i \in 1..Len(items) |->
                      [item |-> items[i], score |-> Score(lower(texts[i]), query)]]
        results == SelectSeq2(scored, [i \in 1..Len(items) |-> IsMatch(scored[i].score)])
    IN Items(SliceTo(results, limit))

\* the common body of search_facts and search_conversations over the texts of
\* the items
SearchByTerms(items, texts, query, limit) ==
    LET scored == [i \in 1..Len(items) |->
                      [item |-> items[i], score |-> Score(lower(texts[i]), query)]]
        results == SelectSeq2(scored, [i \in 1..Len(items) |-> IsMatch(scored[i].score)])
    IN Items(SliceTo(SortReverse(results), limit))

\* fact["content"]
FactText(fact) == fact.content

\* f"{conv['user_message']} {conv['agent_response']}"
ConversationText(conv) == conv.user_message \o <<" ">> \o conv.agent_response

\* `for x in collection` with x["key"] in the body runs on a list of dicts and on
\* an empty dict; on None and on a dict with keys it raises TypeError
Iterable(type, items) == type = "list" \/ (type = "dict" /\ items = <<>>)

search_facts(query, limit) ==
    /\ alive
    /\ call' = [op |-> "search_facts", query |-> query, limit |-> limit]
    /\ result' = IF Iterable(pytype.facts, facts)
                 THEN Ok(SearchByTerms(facts,
                            [i \in 1..Len(facts) |-> FactText(facts[i])], query, limit))
                 ELSE Raised
    /\ ReadOnly

search_conversations(query, limit) ==
    /\ alive
    /\ call' = [op |-> "search_conversations", query |-> query, limit |-> limit]
    /\ result' = IF Iterable(pytype.conversations, conversations)
                 THEN Ok(SearchByTerms(conversations,
                            [i \in 1..Len(conversations) |->
                                ConversationText(conversations[i])], query, limit))
                 ELSE Raised
    /\ ReadOnly

\* str(x) inside an f-string, for an Optional[str]
Format(x) == IF x = None THEN <<"N","o","n","e">> ELSE x[1]

\* f"{name} {procedure.get('description', '')}".lower(): the key is always there
ProcedureText(procedure) ==
    lower(procedure.name \o <<" ">> \o Format(procedure.description))

\* (mutant) reverse=True reverses the matches of equal usage_count
SearchProcedures_ReverseTies(procs, query, limit) ==
    LET q == lower(query)
        results == SelectSeq2(
                      [i \in 1..Len(procs) |->
                          [item |-> procs[i], score |-> procs[i].usage_count]],
                      [i \in 1..Len(procs) |-> contains(ProcedureText(procs[i]), q)])
        n == Len(results)
    IN SliceTo(Items([i \in 1..n |-> results[n + 1 - i]]), limit)

SearchProcedures(procs, query, limit) ==
    LET q == lower(query)
        results == SelectSeq2(
                      [i \in 1..Len(procs) |->
                          [item |-> procs[i], score |-> procs[i].usage_count]],
                      [i \in 1..Len(procs) |-> contains(ProcedureText(procs[i]), q)])
    IN SliceTo(Items(SortReverse(results)), limit)

search_procedures(query, limit) ==
    /\ alive
    /\ call' = [op |-> "search_procedures", query |-> query, limit |-> limit]
    /\ result' = IF pytype.procedures = "dict"
                 THEN Ok(SearchProcedures(procedures, query, limit))
                 ELSE Raised
    /\ ReadOnly

GetRecentConversations(convs, count) ==
    IF Len(convs) >= count THEN SliceFrom(convs, 0 - count) ELSE convs

get_recent_conversations(count) ==
    /\ alive
    /\ call' = [op |-> "get_recent_conversations", count |-> count]
    /\ result' = IF \/ pytype.conversations = "list"
                    \/ /\ pytype.conversations = "dict"   \* a dict cannot be sliced
                       /\ Len(conversations) < count
                 THEN Ok(GetRecentConversations(conversations, count))
                 ELSE Raised
    /\ ReadOnly

----------------------------------------------------------------------------
(* The context text *)

Digits == <<"0","1","2","3","4","5","6","7","8","9">>

\* str(n) of an int n >= 0
Decimal(n) ==
    LET d[k \in 0..n] == IF k < 10 THEN <<Digits[k + 1]>>
                         ELSE Append(d[k \div 10], Digits[(k % 10) + 1])
    IN d[n]

\* sep.join(parts)
Join(sep, parts) ==
    LET f[n \in 0..Len(parts)] ==
            IF n = 0 THEN <<>>
            ELSE IF n = 1 THEN parts[1]
            ELSE f[n-1] \o sep \o parts[n]
    IN f[Len(parts)]

\* str.strip(): without the whitespace at both ends
strip(s) ==
    LET n == Len(s)
    IN IF \A i \in 1..n : s[i] \in Whitespace THEN <<>>
       ELSE SubSeq(s,
               CHOOSE i \in 1..n :
                  s[i] \notin Whitespace /\ \A j \in 1..(i - 1) : s[j] \in Whitespace,
               CHOOSE i \in 1..n :
                  s[i] \notin Whitespace /\ \A j \in (i + 1)..n : s[j] \in Whitespace)

NL == <<"\n">>

WorkingMemoryHeader ==
    <<"#","#","#"," ","C","u","r","r","e","n","t"," ","C","o","n","t","e",
      "x","t"," ","(","W","o","r","k","i","n","g"," ","M","e","m","o","r",
      "y",")",":">>

RecentHeader ==
    <<"#","#","#"," ","R","e","c","e","n","t"," ","C","o","n","v","e","r",
      "s","a","t","i","o","n"," ","H","i","s","t","o","r","y",":">>

FactsHeader ==
    <<"#","#","#"," ","R","e","l","e","v","a","n","t"," ","F","a","c","t",
      "s"," ","f","r","o","m"," ","M","e","m","o","r","y",":">>

ProceduresHeader ==
    <<"#","#","#"," ","R","e","l","e","v","a","n","t"," ","P","r","o","c",
      "e","d","u","r","e","s",":">>

ProcedurePrefix == <<"P","r","o","c","e","d","u","r","e",":"," ">>

BulletPrefix == <<"-"," ">>

\* count=3 in the get_recent_conversations call of generate_context_for_llm
ContextRecentCount == 3

\* the default limit of search_facts and search_conversations
DefaultFactLimit == 3

\* the default limit of search_procedures
DefaultProcedureLimit == 2

\* (mutant) count=3 is forgotten: the default count of get_recent_conversations
RecentForContext_DefaultCount(convs) == GetRecentConversations(convs, 5)

\* self.get_recent_conversations(count=3)
RecentForContext(convs) == GetRecentConversations(convs, ContextRecentCount)

\* (mutant) the working memory is sorted in place, as add_to_working_memory does
AfterSorted_InPlace(wm) ==
    LET ins(sorted, x) ==
            LET k == Cardinality({i \in 1..Len(sorted) : ~ KeyLess(sorted[i], x)})
            IN SubSeq(sorted, 1, k) \o <<x>> \o SubSeq(sorted, k + 1, Len(sorted))
        f[n \in 0..Len(wm)] == IF n = 0 THEN <<>> ELSE ins(f[n-1], wm[n])
    IN f[Len(wm)]

\* self.working_memory after sorted(self.working_memory, ...): sorted() builds a
\* new list and leaves its argument as it was
AfterSorted(wm) == wm

\* (mutant) reverse=True is forgotten: ascending, equal keys in their order
SortWorkingItems_Ascending(wm) == SortWorkingMemory(wm)

\* sorted(self.working_memory, key=..., reverse=True): descending by (importance,
\* timestamp), items of equal keys in their order in the working memory; each
\* item is inserted behind the items whose key is not below its own
SortWorkingItems(wm) ==
    LET ins(sorted, x) ==
            LET k == Cardinality({i \in 1..Len(sorted) : ~ KeyLess(sorted[i], x)})
            IN SubSeq(sorted, 1, k) \o <<x>> \o SubSeq(sorted, k + 1, Len(sorted))
        f[n \in 0..Len(wm)] == IF n = 0 THEN <<>> ELSE ins(f[n-1], wm[n])
    IN f[Len(wm)]

\* f"User: {conv['user_message']}\nAgent: {conv['agent_response']}"
TurnText(conv) ==
    UserPrefix \o conv.user_message \o NL \o AgentPrefix \o conv.agent_response

\* f"Procedure: {proc['name']}\n{steps}\n\n" with steps the numbered lines
ProcedureBlock(proc) ==
    LET steps == Join(NL, [i \in 1..Len(proc.steps) |->
                              <<" "," ">> \o Decimal(i) \o <<"."," ">> \o proc.steps[i]])
    IN ProcedurePrefix \o proc.name \o NL \o steps \o NL \o NL

\* the body of generate_context_for_llm on the collections of the store
GenerateContext(wm, convs, fs, procs, current_message) ==
    LET working_items == SortWorkingItems(wm)
        working_memory_text ==
            Join(NL, [i \in 1..Len(working_items) |->
                         BulletPrefix \o working_items[i].content])
        recent == RecentForContext(convs)
        recent_text == Join(NL, [i \in 1..Len(recent) |-> TurnText(recent[i])])
        relevant_facts ==
            SearchByTerms(fs, [i \in 1..Len(fs) |-> FactText(fs[i])],
                          current_message, DefaultFactLimit)
        facts_text ==
            Join(NL, [i \in 1..Len(relevant_facts) |->
                         BulletPrefix \o relevant_facts[i].content])
        relevant_procedures == SearchProcedures(procs, current_message,
                                                DefaultProcedureLimit)
        procedures_text ==
            Join(<<>>, [i \in 1..Len(relevant_procedures) |->
                           ProcedureBlock(relevant_procedures[i])])
    IN strip(NL \o WorkingMemoryHeader \o NL \o working_memory_text \o NL \o NL
                \o RecentHeader \o NL \o recent_text \o NL \o NL
                \o FactsHeader \o NL \o facts_text \o NL \o NL
                \o ProceduresHeader \o NL \o procedures_text \o NL)

generate_context_for_llm(current_message) ==
    /\ alive
    /\ call' = [op |-> "generate_context_for_llm", current_message |-> current_message]
    /\ result' = IF /\ Iterable(pytype.facts, facts)
                    /\ pytype.procedures = "dict"
                    /\ Iterable(pytype.conversations, conversations)
                 THEN Ok(GenerateContext(working_memory, conversations, facts,
                                         procedures, current_message))
                 ELSE Raised
    /\ working_memory' = AfterSorted(working_memory)
    /\ UNCHANGED <<facts, procedures, conversations, pytype,
                   facts_file, procedures_file, conversations_file, alive, outside, storage, now,
                   old>>

----------------------------------------------------------------------------
(* Construction and the environment of the store *)

\* AgentMemory(storage_dir) on the directory of the store, in a new process: the
\* three files are loaded in the order facts, procedures, conversations, and an
\* exception that _load_json lets through ends the construction
AgentMemory_init ==
    LET f == load_json(facts_file, "list")
        p == load_json(procedures_file, "dict")
        c == load_json(conversations_file, "list")
    IN /\ IF f.raised \/ p.raised \/ c.raised
          THEN /\ alive' = FALSE
               /\ facts' = <<>>
               /\ procedures' = <<>>
               /\ conversations' = <<>>
               /\ pytype' = DefaultTypes
               /\ result' = Raised
          ELSE /\ alive' = TRUE
               /\ facts' = f.items
               /\ procedures' = p.items
               /\ conversations' = c.items
               /\ pytype' = [facts |-> f.type, procedures |-> p.type,
                             conversations |-> c.type]
               /\ result' = Ok(<<>>)
       /\ working_memory' = <<>>
       /\ call' = [op |-> "__init__"]
       /\ old' = Snapshot
       /\ UNCHANGED <<disk, storage, now, outside>>

\* AgentMemory(storage_dir) once more on the directory of the store, held by
\* another caller while the first store stays open: its facts are what
\* facts_semantic.json holds at this time
second_init ==
    LET f == load_json(facts_file, "list")
        p == load_json(procedures_file, "dict")
        c == load_json(conversations_file, "list")
    IN /\ IF f.raised \/ p.raised \/ c.raised
          THEN /\ second' = NoStore
               /\ result' = Raised
          ELSE /\ second' = [open |-> TRUE, type |-> f.type, facts |-> f.items]
               /\ result' = Ok(<<>>)
       /\ call' = [op |-> "second.__init__"]
       /\ old' = Snapshot
       /\ UNCHANGED <<facts, procedures, conversations, working_memory, pytype,
                      disk, alive, storage, now, tmp, fetched>>

\* add_fact on the second store: the fact joins the list of the second store, and
\* that list replaces the content of facts_semantic.json
second_add_fact(content, category) ==
    /\ second.open
    /\ \E t \in ClockReadings :
          LET fact == [content |-> content, category |-> category, timestamp |-> t]
          IN /\ now' = t
             /\ IF second.type # "list"
                THEN /\ UNCHANGED <<second, disk>>
                     /\ result' = Raised
                ELSE /\ second' = [second EXCEPT !.facts = ListAppend(@, fact)]
                     /\ IF storage = "ok"
                        THEN /\ SaveJson("list", FactsToWrite(second'.facts, facts_file),
                                         facts_path)
                             /\ result' = Ok(<<>>)
                        ELSE /\ facts_file' \in FailedWrite(facts_file)
                             /\ UNCHANGED <<procedures_file, conversations_file>>
                             /\ result' = RaisedOSError
             /\ call' = [op |-> "second.add_fact", content |-> content,
                         category |-> category, timestamp |-> t]
    /\ old' = Snapshot
    /\ UNCHANGED <<facts, procedures, conversations, working_memory, pytype,
                   alive, storage, tmp, fetched>>

\* what the store may find in a backing file that it did not write itself: text
\* that is not JSON, bytes that are not text, or JSON of another shape
ForeignFiles ==
    { [kind |-> "invalid", type |-> "", items |-> <<>>],
      [kind |-> "undecodable", type |-> "", items |-> <<>>],
      [kind |-> "json", type |-> "null", items |-> <<>>],
      [kind |-> "json", type |-> "array", items |-> <<>>],
      [kind |-> "json", type |-> "object", items |-> <<>>] }

\* another program writes a backing file while no store is being constructed
overwrite_file(name, content) ==
    /\ facts_file' = IF name = "facts" THEN content ELSE facts_file
    /\ procedures_file' = IF name = "procedures" THEN content ELSE procedures_file
    /\ conversations_file' = IF name = "conversations" THEN content ELSE conversations_file
    /\ <<facts_file', procedures_file', conversations_file'>> # disk
    /\ call' = [op |-> "overwrite_file", name |-> name]
    /\ result' = Ok(<<>>)
    /\ old' = Snapshot
    /\ UNCHANGED <<facts, procedures, conversations, working_memory, pytype,
                   alive, outside, storage, now>>

\* the wall clock is set back (an NTP or DST adjustment): datetime.now() is not
\* monotonic
clock_set_back ==
    /\ now > 0
    /\ now' = 0
    /\ UNCHANGED <<facts, procedures, conversations, working_memory, pytype, disk,
                   alive, outside, storage, call, result, old>>

----------------------------------------------------------------------------
(* The agent: class OpenAIAgent *)

\* str.startswith
startswith(s, prefix) ==
    Len(s) >= Len(prefix) /\ SubSeq(s, 1, Len(prefix)) = prefix

\* (mutant) a missing separator gives the whole string and an empty rest, as
\* str.partition does
SplitOnce_Partition(s, sep) ==
    LET at == {i \in 1..Len(s) : s[i] = sep}
    IN IF at = {} THEN <<s, <<>>>>
       ELSE LET i == CHOOSE i \in at : \A j \in at : i <= j
            IN <<SubSeq(s, 1, i - 1), SubSeq(s, i + 1, Len(s))>>

\* s.split(sep, 1) for a separator of one character: the parts before and after
\* the first separator, or s alone when it has none
SplitOnce(s, sep) ==
    LET at == {i \in 1..Len(s) : s[i] = sep}
    IN IF at = {} THEN <<s>>
       ELSE LET i == CHOOSE i \in at : \A j \in at : i <= j
            IN <<SubSeq(s, 1, i - 1), SubSeq(s, i + 1, Len(s))>>

\* s.split(sep) for a separator of one character: the parts between the
\* separators, empty parts included
SplitAll(s, sep) ==
    LET n == Len(s)
        IsCut(i) == i = 0 \/ i = n + 1 \/ s[i] = sep
        NextCut(i) == CHOOSE j \in (i + 1)..(n + 1) :
                         IsCut(j) /\ \A k \in (i + 1)..(j - 1) : ~ IsCut(k)
        f[i \in 0..n] ==
            IF i = 0 THEN <<SubSeq(s, 1, NextCut(0) - 1)>>
            ELSE IF s[i] = sep THEN Append(f[i-1], SubSeq(s, i + 1, NextCut(i) - 1))
            ELSE f[i-1]
    IN f[n]

\* the four facts that OpenAIAgent.__init__ adds
SeedFacts ==
    << <<"I"," ","a","m"," ","a","n"," ","A","I"," ","a","s","s","i","s",
         "t","a","n","t"," ","w","i","t","h"," ","m","e","m","o","r","y",
         " ","c","a","p","a","b","i","l","i","t","i","e","s",".">>,
       <<"I"," ","c","a","n"," ","r","e","m","e","m","b","e","r"," ","u",
         "s","e","r"," ","i","n","t","e","r","a","c","t","i","o","n","s",
         " ","a","n","d"," ","r","e","c","a","l","l"," ","t","h","e","m",
         " ","l","a","t","e","r",".">>,
       <<"I"," ","c","a","n"," ","s","t","o","r","e"," ","a","n","d"," ",
         "r","e","t","r","i","e","v","e"," ","f","a","c","t","u","a","l",
         " ","i","n","f","o","r","m","a","t","i","o","n",".">>,
       <<"I"," ","c","a","n"," ","r","e","m","e","m","b","e","r"," ","a",
         "n","d"," ","e","x","e","c","u","t","e"," ","p","r","o","c","e",
         "d","u","r","e","s"," ","a","n","d"," ","w","o","r","k","f","l",
         "o","w","s",".">> >>

\* "remember that": the prefix that query tests for
remember_that ==
    <<"r","e","m","e","m","b","e","r"," ","t","h","a","t">>

\* "remember that ": the prefix whose length query cuts off
remember_that_space ==
    <<"r","e","m","e","m","b","e","r"," ","t","h","a","t"," ">>

remember_the_steps_for ==
    <<"r","e","m","e","m","b","e","r"," ","t","h","e"," ","s","t","e","p",
      "s"," ","f","o","r">>

FactConfirmation ==
    <<"I","'","v","e"," ","l","e","a","r","n","e","d"," ","t","h","i","s",
      " ","f","a","c","t",":"," ">>

ProcedureConfirmation ==
    <<"I","'","v","e"," ","l","e","a","r","n","e","d"," ","t","h","e"," ",
      "p","r","o","c","e","d","u","r","e",":"," ">>

UsageHint ==
    <<"I"," ","c","o","u","l","d","n","'","t"," ","p","a","r","s","e"," ",
      "t","h","e"," ","p","r","o","c","e","d","u","r","e","."," ","P","l",
      "e","a","s","e"," ","f","o","l","l","o","w"," ","t","h","e"," ","f",
      "o","r","m","a","t",":"," ","'","R","e","m","e","m","b","e","r"," ",
      "t","h","e"," ","s","t","e","p","s"," ","f","o","r"," ","[","P","r",
      "o","c","e","d","u","r","e"," ","N","a","m","e","]",":"," ","s","t",
      "e","p","1",","," ","s","t","e","p","2",","," ","s","t","e","p","3",
      "'">>

ErrorPrefix ==
    <<"E","r","r","o","r",":"," ","A","P","I"," ","r","e","q","u","e","s",
      "t"," ","f","a","i","l","e","d",":"," ">>

\* str(e) of the exception that `except Exception as e` has caught
ExceptionText(r) ==
    IF r = RaisedOSError
    THEN <<"O","S","E","r","r","o","r">>
    ELSE <<"A","t","t","r","i","b","u","t","e","E","r","r","o","r">>

\* (mutant) the fact is returned without the confirmation in front of it
learn_fact_result_Bare(fact) ==
    IF add_fact_result.status = "ok" THEN Ok(fact)
    ELSE add_fact_result

\* learn_fact: add_fact, then the confirmation
learn_fact_result(fact) ==
    IF add_fact_result.status = "ok" THEN Ok(FactConfirmation \o fact)
    ELSE add_fact_result

\* learn_procedure: add_procedure, then the confirmation
learn_procedure_result(name) ==
    IF add_procedure_result.status = "ok" THEN Ok(ProcedureConfirmation \o name)
    ELSE add_procedure_result

learn_fact(fact, category) ==
    /\ alive
    /\ \E t \in ClockReadings :
          /\ add_fact_body(fact, category, t)
          /\ call' = [op |-> "learn_fact", fact |-> fact, category |-> category,
                      timestamp |-> t]
    /\ result' = learn_fact_result(fact)
    /\ old' = Snapshot
    /\ UNCHANGED <<procedures, conversations, working_memory, pytype, alive, outside, storage>>

learn_procedure(name, steps, description) ==
    /\ alive
    /\ \E t \in ClockReadings :
          /\ add_procedure_body(name, steps, description, t)
          /\ call' = [op |-> "learn_procedure", name |-> name, steps |-> steps,
                      description |-> description, timestamp |-> t]
    /\ result' = learn_procedure_result(name)
    /\ old' = Snapshot
    /\ UNCHANGED <<facts, conversations, working_memory, pytype, alive, outside, storage>>

\* the branch that query takes on a message
QueryRoute(user_message) ==
    IF startswith(lower(user_message), remember_that) THEN "fact"
    ELSE IF startswith(lower(user_message), remember_the_steps_for)
         THEN (IF Len(SplitOnce(user_message, ":")) = 2
               THEN "procedure"
               ELSE "usage")    \* the unpacking raises ValueError
    ELSE "llm"

\* fact = user_message[len("remember that "):].strip()
QueryFact(user_message) ==
    strip(SliceFrom(user_message, Len(remember_that_space)))

\* procedure_name = title_part[len("remember the steps for"):].strip()
QueryProcedureName(user_message) ==
    strip(SliceFrom(SplitOnce(user_message, ":")[1], Len(remember_the_steps_for)))

\* steps = [step.strip() for step in steps_part.split(",")]
QuerySteps(user_message) ==
    LET parts == SplitAll(SplitOnce(user_message, ":")[2], ",")
    IN [i \in 1..Len(parts) |-> strip(parts[i])]

\* (mutant) the context is built after the turn has been stored
QueryContext_AfterStoring(wm, convs, fs, procs, user_message, response_text) ==
    GenerateContext(
        UpdateWorkingMemory(wm, user_message, response_text, now, now),
        Append(convs, [user_message |-> user_message, agent_response |-> response_text,
                       timestamp |-> now, metadata |-> <<>>]),
        fs, procs, user_message)

\* memory_context = self.memory.generate_context_for_llm(user_message), before
\* the request is made
QueryContext(wm, convs, fs, procs, user_message, response_text) ==
    GenerateContext(wm, convs, fs, procs, user_message)

\* (mutant) the turn is stored whether or not the request succeeded
RecordsTurn_Always(outcome) == TRUE

\* add_conversation follows the request inside the try block: it is reached when
\* the request has returned
RecordsTurn(outcome) == outcome.status = "ok"

\* what the request gave: the text of the completion, or the message of the
\* exception it raised
ResponseText(outcome) ==
    IF outcome.status = "ok" THEN outcome.text ELSE ErrorPrefix \o outcome.text

\* OpenAIAgent.query(user_message), the request to the model ending in outcome
OpenAIAgent_query(user_message, outcome) ==
    LET route == QueryRoute(user_message)
        name == QueryProcedureName(user_message)
        context == QueryContext(working_memory, conversations, facts, procedures,
                                user_message, outcome.text)
    IN
    /\ alive
    /\ old' = Snapshot
    /\ UNCHANGED <<pytype, alive, outside, storage>>
    /\ IF route = "fact"
       THEN /\ \E t \in ClockReadings : add_fact_body(QueryFact(user_message), None, t)
            /\ result' = learn_fact_result(QueryFact(user_message))
            /\ call' = [op |-> "query", user_message |-> user_message,
                        llm_calls |-> 0, llm |-> "none", context |-> <<>>]
            /\ UNCHANGED <<procedures, conversations, working_memory>>
       ELSE IF route = "procedure"
       THEN /\ \E t \in ClockReadings :
                  add_procedure_body(name, QuerySteps(user_message), None, t)
            /\ result' = learn_procedure_result(name)
            /\ call' = [op |-> "query", user_message |-> user_message,
                        llm_calls |-> 0, llm |-> "none", context |-> <<>>]
            /\ UNCHANGED <<facts, conversations, working_memory>>
       ELSE IF route = "usage"
       THEN /\ result' = Ok(UsageHint)
            /\ call' = [op |-> "query", user_message |-> user_message,
                        llm_calls |-> 0, llm |-> "none", context |-> <<>>]
            /\ UNCHANGED <<facts, procedures, conversations, working_memory, disk, now>>
       ELSE /\ call' = [op |-> "query", user_message |-> user_message,
                        llm_calls |-> 1, llm |-> outcome.status, context |-> context]
            /\ UNCHANGED <<facts, procedures>>
            /\ IF RecordsTurn(outcome)
               THEN /\ \E t1 \in ClockReadings :
                       \E t2 \in {t \in Times : t >= t1} :
                       \E t3 \in {t \in Times : t >= t2} :
                          add_conversation_body(user_message, ResponseText(outcome),
                                                None, t1, t2, t3)
                    /\ result' =
                          IF outcome.status = "ok" /\ add_conversation_result.status = "ok"
                          THEN Ok(outcome.text)
                          ELSE IF outcome.status = "ok"
                          THEN \* `except Exception` catches what add_conversation raises
                               Ok(ErrorPrefix \o ExceptionText(add_conversation_result))
                          ELSE Ok(ErrorPrefix \o outcome.text)
               ELSE /\ result' = Ok(ErrorPrefix \o outcome.text)
                    /\ UNCHANGED <<conversations, working_memory, disk, now>>

\* the storage directory stops or resumes taking writes (a full disk, a
\* directory made read-only)
storage_fault ==
    /\ storage' = IF storage = "ok" THEN "failing" ELSE "ok"
    /\ call' = [op |-> "storage_fault"]
    /\ result' = Ok(<<>>)
    /\ old' = Snapshot
    /\ UNCHANGED <<facts, procedures, conversations, working_memory, pytype, disk,
                   alive, outside, now>>

\* (mutant) the facts about the agent itself are added when the store has none
SeedsToAdd_IfAbsent(fs) ==
    IF \E i \in 1..Len(fs) : fs[i].content = SeedFacts[1] THEN <<>> ELSE SeedFacts

\* the facts that a construction adds to the facts fs that the store loaded:
\* the four, whatever fs holds
SeedsToAdd(fs) == SeedFacts

\* OpenAIAgent(memory_dir=...) on the storage directory, in a new process: the
\* store is constructed, then add_fact is called for each seed; the first
\* exception ends the construction
OpenAIAgent_init ==
    LET f == load_json(facts_file, "list")
        p == load_json(procedures_file, "dict")
        c == load_json(conversations_file, "list")
        seeds == SeedsToAdd(f.items)
    IN /\ working_memory' = <<>>
       /\ call' = [op |-> "OpenAIAgent"]
       /\ old' = Snapshot
       /\ UNCHANGED <<procedures_file, conversations_file, storage, outside>>
       /\ IF f.raised \/ p.raised \/ c.raised
          THEN /\ alive' = FALSE
               /\ facts' = <<>>
               /\ procedures' = <<>>
               /\ conversations' = <<>>
               /\ pytype' = DefaultTypes
               /\ result' = Raised
               /\ UNCHANGED <<facts_file, now>>
          ELSE /\ procedures' = p.items
               /\ conversations' = c.items
               /\ pytype' = [facts |-> f.type, procedures |-> p.type,
                             conversations |-> c.type]
               /\ IF seeds = <<>>
                  THEN /\ alive' = TRUE
                       /\ facts' = f.items
                       /\ result' = Ok(<<>>)
                       /\ UNCHANGED <<facts_file, now>>
                  ELSE IF f.type # "list"
                  THEN \* the first add_fact raises: None and dict have no append
                       /\ alive' = FALSE
                       /\ facts' = f.items
                       /\ result' = Raised
                       /\ UNCHANGED facts_file
                       /\ now' \in ClockReadings
                  ELSE IF storage # "ok"
                  THEN \* the first add_fact appends and its write raises
                       /\ alive' = FALSE
                       /\ \E t \in ClockReadings :
                             /\ now' = t
                             /\ facts' = ListAppend(f.items,
                                            [content |-> seeds[1], category |-> None,
                                             timestamp |-> t])
                       /\ facts_file' \in FailedWrite(facts_file)
                       /\ result' = RaisedOSError
                  ELSE /\ alive' = TRUE
                       /\ \E ts \in [1..Len(seeds) -> ClockReadings] :
                             /\ \A i \in 1..(Len(seeds) - 1) : ts[i] <= ts[i + 1]
                             /\ now' = ts[Len(seeds)]
                             /\ facts' = f.items \o
                                   [i \in 1..Len(seeds) |->
                                       [content |-> seeds[i], category |-> None,
                                        timestamp |-> ts[i]]]
                       /\ facts_file' = save_json("list", facts')
                       /\ result' = Ok(<<>>)

\* OpenAIAgent() on a fresh storage directory: the store, then the four facts
InitAgent ==
    /\ facts = [i \in 1..4 |-> [content |-> SeedFacts[i], category |-> None,
                                timestamp |-> 0]]
    /\ procedures = <<>>
    /\ conversations = <<>>
    /\ working_memory = <<>>
    /\ pytype = DefaultTypes
    /\ facts_file = save_json("list", facts)
    /\ procedures_file = MissingFile
    /\ conversations_file = MissingFile
    /\ alive = TRUE
    /\ second = NoStore
    /\ tmp = {}
    /\ fetched = <<>>
    /\ storage = "ok"
    /\ now = 0
    /\ call = [op |-> "OpenAIAgent"]
    /\ result = Ok(<<>>)
    /\ old = [facts |-> SubSeq(facts, 1, 3), procedures |-> <<>>, conversations |-> <<>>,
              working_memory |-> <<>>, alive |-> TRUE,
              facts_file |-> save_json("list", SubSeq(facts, 1, 3)),
              procedures_file |-> MissingFile,
              conversations_file |-> MissingFile]

----------------------------------------------------------------------------
(* Inputs *)

s_x   == <<"x">>
s_hi  == <<"h","i">>
s_ok  == <<"o","k">>
s_k   == <<"k">>
s_t   == <<"t">>
s_po  == <<"p","o">>
s_Tea == <<"T","e","a">>
s_Pot == <<"P","o","t">>
s_tea_pot == <<"t","e","a"," ","p","o","t">>

s_a == <<"a">>
s_b == <<"b">>
s_c == <<"c">>
s_Bake_Cake  == <<"B","a","k","e"," ","C","a","k","e">>
s_oven_steps == <<"o","v","e","n"," ","s","t","e","p","s">>

ProcedureInputs ==
    [name : {s_Bake_Cake, s_Tea},
     steps : {<<s_a, s_b>>, <<s_c>>},
     description : {None, Some(s_oven_steps)}]

ProcedureQueries ==
    { <<"b","a","k","e"," ","a"," ","c","a","k","e">>,
      <<"b","a","k","e"," ","c","a","k","e">>,
      <<"C","A","K","E"," ","o","v","e","n">>,
      <<"n","o","n","e">>,
      <<>> }

\* metadata of a turn: absent, {"k": "a"} and {"k": ("a", "b")}
Metadatas ==
    { None,
      Some(<< [key |-> s_k, value |-> [type |-> "str", items |-> <<s_a>>]] >>),
      Some(<< [key |-> s_k, value |-> [type |-> "tuple", items |-> <<s_a, s_b>>]] >>) }

FactInputs ==
    { [content |-> s_Tea, category |-> None],
      [content |-> s_Pot, category |-> Some(s_k)],
      [content |-> s_tea_pot, category |-> None] }

TurnInputs ==
    { [user_message |-> s_po, agent_response |-> s_t],
      [user_message |-> s_Tea, agent_response |-> s_tea_pot] }

Queries ==
    { <<"t","e","a">>,
      <<"P","O","T","\t"," ","t","e","a">>,
      <<"p","o","t">>,
      <<"t","e","a"," ","t","e","a"," ","p","o","t">>,
      <<" ">> }

\* importances given to add_to_working_memory directly: 0.5 and 1.0
DirectImportances == {5, 10}

\* messages to the agent
m_remember_tea    ==
    <<"R","e","m","e","m","b","e","r"," ","t","h","a","t"," ","t","e","a",
      " ","i","s"," ","h","o","t">>
m_remember_thatcher ==
    <<"r","e","m","e","m","b","e","r"," ","t","h","a","t","c","h","e","r",
      " ","w","o","n">>
m_remember_pot ==
    <<"R","E","M","E","M","B","E","R"," ","T","H","A","T"," ","\t","p","o",
      "t"," ">>
m_steps_tea ==
    <<"R","e","m","e","m","b","e","r"," ","t","h","e"," ","s","t","e","p",
      "s"," ","f","o","r"," ","T","e","a",":"," ","a",","," ","b">>
m_steps_malformed ==
    <<"r","e","m","e","m","b","e","r"," ","t","h","e"," ","s","t","e","p",
      "s"," ","f","o","r"," ","t","e","a">>
m_ask ==
    <<"t","e","a","?">>
m_so_remember ==
    <<"s","o"," ","r","e","m","e","m","b","e","r"," ","t","h","a","t"," ",
      "x">>

AgentMessages ==
    {m_remember_tea, m_remember_thatcher, m_remember_pot, m_steps_tea,
     m_steps_malformed, m_ask, m_so_remember}

\* how the request to the model ends: a completion, or an exception and its text
LLMOutcomes ==
    { [status |-> "ok", text |-> s_ok],
      [status |-> "failed", text |-> <<"q","u","o","t","a">>] }

----------------------------------------------------------------------------
(* SpecWM: the working memory under add_to_working_memory and add_conversation *)

MaxTurns == 5

NextWM ==
    \/ \E i \in {5} : add_to_working_memory(s_x, i)
    \/ /\ Len(conversations) < MaxTurns
       /\ add_conversation(s_hi, s_ok, None)

SpecWM == Init /\ [][NextWM]_vars

----------------------------------------------------------------------------
(* SpecSearch: facts and conversations under add_fact, add_conversation and  *)
(* the calls that read them.  The searches do not read the timestamps, and   *)
(* the clock stands still here.  A reading call leaves the store as it is,   *)
(* so it is made on the states that a mutation has produced: a reading call  *)
(* after another would repeat a state.                                       *)

MaxItems == 3
MaxLimit == 2

Mutated ==
    call.op \in {"__init__", "add_fact", "add_procedure", "add_conversation",
                 "add_to_working_memory"}

NextSearch ==
    \/ /\ Len(facts) + Len(conversations) < MaxItems
       /\ \E f \in FactInputs : add_fact(f.content, f.category)
       /\ now' = now
    \/ /\ Len(facts) + Len(conversations) < MaxItems
       /\ \E c \in TurnInputs : add_conversation(c.user_message, c.agent_response, None)
       /\ now' = now
    \/ /\ Mutated
       /\ \E q \in Queries, limit \in 0..MaxLimit : search_facts(q, limit)
    \/ /\ Mutated
       /\ \E q \in Queries, limit \in 0..MaxLimit : search_conversations(q, limit)
    \/ /\ Mutated
       /\ \E count \in 0..MaxLimit : get_recent_conversations(count)

SpecSearch == Init /\ [][NextSearch]_vars

----------------------------------------------------------------------------
(* SpecProc: the procedures under add_procedure and search_procedures, with  *)
(* the clock standing still and reading calls made as in SpecSearch          *)

NextProc ==
    \/ /\ \E p \in ProcedureInputs : add_procedure(p.name, p.steps, p.description)
       /\ now' = now
    \/ /\ Mutated
       /\ \E q \in ProcedureQueries, limit \in 0..MaxLimit : search_procedures(q, limit)

SpecProc == Init /\ [][NextProc]_vars

----------------------------------------------------------------------------
(* SpecPersist: the three add calls and the construction of a new store on   *)
(* the same directory, with the clock standing still                         *)

NextPersist ==
    \/ /\ Len(facts) + Len(procedures) + Len(conversations) < MaxItems
       /\ \E f \in FactInputs : add_fact(f.content, f.category)
       /\ now' = now
    \/ /\ Len(facts) + Len(procedures) + Len(conversations) < MaxItems
       /\ \E n \in {s_Tea, s_Bake_Cake}, d \in {None, Some(s_oven_steps)} :
             add_procedure(n, <<s_c>>, d)
       /\ now' = now
    \/ /\ Len(facts) + Len(procedures) + Len(conversations) < MaxItems
       /\ \E m \in Metadatas : add_conversation(s_po, s_t, m)
       /\ now' = now
    \/ AgentMemory_init

SpecPersist == Init /\ [][NextPersist]_vars

----------------------------------------------------------------------------
(* SpecLoad: the construction of a store on a directory whose files another  *)
(* program may have written                                                  *)

NextLoad ==
    \/ /\ Len(facts) < 1
       /\ add_fact(s_Tea, None)
       /\ now' = now
    \/ /\ Len(procedures) < 1
       /\ add_procedure(s_Tea, <<s_c>>, None)
       /\ now' = now
    \/ \E name \in {"facts", "procedures", "conversations"}, content \in ForeignFiles :
          overwrite_file(name, content)
    \/ AgentMemory_init

SpecLoad == Init /\ [][NextLoad]_vars

----------------------------------------------------------------------------
(* SpecEvict: add_to_working_memory on a working memory at its capacity.     *)
(* Any sequence of at most working_memory_capacity items is the working     *)
(* memory after that many add_to_working_memory calls (the clock can be set *)
(* back between them), so the initial states are such sequences, here a run *)
(* of one item followed by a run of another.                                *)

EvictItems ==
    [content : {s_x}, importance : DirectImportances, timestamp : Times]

InitEvict ==
    /\ \E n \in {working_memory_capacity - 1, working_memory_capacity} :
       \E k \in 0..n :
       \E a \in EvictItems, b \in EvictItems :
          /\ working_memory = [i \in 1..n |-> IF i <= k THEN a ELSE b]
          /\ old = [facts |-> <<>>, procedures |-> <<>>, conversations |-> <<>>,
                    working_memory |-> SubSeq(working_memory, 1, n - 1), alive |-> TRUE,
                    facts_file |-> MissingFile, procedures_file |-> MissingFile,
                    conversations_file |-> MissingFile]
          /\ call = [op |-> "add_to_working_memory", content |-> working_memory[n].content,
                     importance |-> working_memory[n].importance,
                     timestamp |-> working_memory[n].timestamp]
          /\ now = working_memory[n].timestamp
    /\ facts = <<>>
    /\ procedures = <<>>
    /\ conversations = <<>>
    /\ pytype = DefaultTypes
    /\ facts_file = MissingFile
    /\ procedures_file = MissingFile
    /\ conversations_file = MissingFile
    /\ alive = TRUE
    /\ second = NoStore
    /\ tmp = {}
    /\ fetched = <<>>
    /\ storage = "ok"
    /\ result = Ok(<<>>)

NextEvict ==
    \/ \E i \in DirectImportances : add_to_working_memory(s_x, i)
    \/ clock_set_back

SpecEvict == InitEvict /\ [][NextEvict]_vars

----------------------------------------------------------------------------
(* SpecTurns: the context text right after a turn was added, on a working    *)
(* memory that add_to_working_memory calls at importance 1.0 and 0.5 and      *)
(* earlier turns have filled, with the clock standing still                  *)

MaxLow == 2
MaxChats == 2

\* the number of working-memory items of an importance below that of an agent line
LowItems == Cardinality({i \in 1..Len(working_memory) :
                            working_memory[i].importance < AgentImportance})

NextTurns ==
    \/ /\ \E i \in DirectImportances :
             /\ i < AgentImportance => LowItems < MaxLow
             /\ add_to_working_memory(s_x, i)
       /\ now' = now
    \/ /\ Len(conversations) < MaxChats
       /\ add_conversation(s_hi, s_ok, None)
       /\ now' = now
    \/ /\ call.op = "add_conversation"
       /\ generate_context_for_llm(s_hi)

SpecTurns == Init /\ [][NextTurns]_vars

----------------------------------------------------------------------------
(* SpecStore: the four calls that change the store and the context text, on *)
(* at most MaxCalls stored items.  The clock moves in the calls that add     *)
(* 'x' to the working memory and stands still in the other calls; the        *)
(* context is generated as the reading calls of SpecSearch are made.         *)

MaxCalls == 4

s_T == <<"T">>

StoreProcedures == {s_Tea, s_Pot, s_tea_pot}

StoreQueries == {s_t, s_Pot}

\* the items that calls have stored: facts, procedures, turns and the items that
\* add_to_working_memory was called with
Stored ==
    Len(facts) + Len(procedures) + Len(conversations)
      + Cardinality({i \in 1..Len(working_memory) :
                        working_memory[i].content \in {s_T, s_x}})

NextStore ==
    \/ /\ Stored < MaxCalls
       /\ \E c \in {s_Tea, s_tea_pot} : add_fact(c, None)
       /\ now' = now
    \/ /\ Stored < MaxCalls
       /\ \E n \in StoreProcedures : add_procedure(n, <<s_a, s_b>>, None)
       /\ now' = now
    \/ /\ Stored < MaxCalls
       /\ add_conversation(s_Tea, s_ok, None)
       /\ now' = now
    \/ /\ Stored < MaxCalls
       /\ add_to_working_memory(s_T, 5)
       /\ now' = now
    \/ /\ Stored < MaxCalls
       /\ add_to_working_memory(s_x, 5)
    \/ /\ Mutated
       /\ \E q \in StoreQueries : generate_context_for_llm(q)

SpecStore == Init /\ [][NextStore]_vars

----------------------------------------------------------------------------
(* SpecReads: the five calls that read the store, on at most MaxItems stored *)
(* items, with the clock standing still                                      *)

NextReads ==
    \/ /\ Stored < MaxItems
       /\ \E c \in {s_Tea, s_tea_pot} : add_fact(c, None)
       /\ now' = now
    \/ /\ Stored < MaxItems
       /\ \E n \in StoreProcedures : add_procedure(n, <<s_a, s_b>>, None)
       /\ now' = now
    \/ /\ Stored < MaxItems
       /\ add_conversation(s_Tea, s_ok, None)
       /\ now' = now
    \/ /\ Stored < MaxItems
       /\ \E i \in DirectImportances : add_to_working_memory(s_T, i)
       /\ now' = now
    \/ \E q \in StoreQueries : generate_context_for_llm(q)
    \/ \E q \in StoreQueries : search_facts(q, DefaultFactLimit)
    \/ \E q \in StoreQueries : search_conversations(q, DefaultFactLimit)
    \/ \E q \in StoreQueries : search_procedures(q, DefaultProcedureLimit)
    \/ get_recent_conversations(ContextRecentCount)

SpecReads == Init /\ [][NextReads]_vars

----------------------------------------------------------------------------
(* SpecAgent: an agent on a fresh directory under query, learn_fact and      *)
(* learn_procedure, with a storage that can stop taking writes and with the  *)
(* clock standing still                                                      *)

MaxAsk == 2

\* the items stored since the agent was constructed
Asked == Len(facts) - 4 + Len(procedures) + Len(conversations)

NextAgent ==
    \/ /\ Asked < MaxAsk
       /\ now' = now
       /\ \E m \in AgentMessages, outcome \in LLMOutcomes : OpenAIAgent_query(m, outcome)
    \/ /\ Asked < MaxAsk
       /\ now' = now
       /\ learn_fact(s_Pot, Some(s_k))
    \/ /\ Asked < MaxAsk
       /\ now' = now
       /\ learn_procedure(s_Bake_Cake, <<s_a>>, Some(s_oven_steps))
    \/ /\ call.op # "storage_fault"
       /\ storage_fault

SpecAgent == InitAgent /\ [][NextAgent]_vars

----------------------------------------------------------------------------
(* SpecLife: the life of a storage directory that takes every write: the     *)
(* four calls that change the store, the three searches and the construction *)
(* of a new store on the directory, with the clock standing still            *)

LifeProcedures == {s_Tea, s_tea_pot, s_Bake_Cake}

LifeFacts == {s_Tea, s_Pot}

\* the metadata of a turn: none, or a dict with a tuple in it
LifeMetadatas ==
    { None,
      Some(<< [key |-> s_k, value |-> [type |-> "tuple", items |-> <<s_a, s_b>>]] >>) }

NextLife ==
    \/ /\ Stored < MaxItems
       /\ \E c \in LifeFacts : add_fact(c, None)
       /\ now' = now
    \/ /\ Stored < MaxItems
       /\ \E n \in LifeProcedures, d \in {None, Some(s_oven_steps)} :
             add_procedure(n, <<s_c>>, d)
       /\ now' = now
    \/ /\ Stored < MaxItems
       /\ \E m \in LifeMetadatas : add_conversation(s_po, s_t, m)
       /\ now' = now
    \/ /\ Stored < MaxItems
       /\ add_to_working_memory(s_T, 5)
       /\ now' = now
    \/ /\ Mutated
       /\ \E q \in StoreQueries : search_facts(q, DefaultFactLimit)
    \/ /\ Mutated
       /\ \E q \in StoreQueries : search_conversations(q, DefaultFactLimit)
    \/ /\ Mutated
       /\ \E q \in StoreQueries, limit \in 1..MaxLimit : search_procedures(q, limit)
    \/ AgentMemory_init

SpecLife == Init /\ [][NextLife]_vars

----------------------------------------------------------------------------
(* SpecChat: a working memory that only add_conversation fills, over more    *)
(* turns than the working memory has places                                  *)

\* the turns of a chat: two more than the working memory has places
ChatTurns == working_memory_capacity + 2

\* the turns in which the user says 'x' and not 'hi'
MaxOdd == 2

OddTurns == Cardinality({i \in 1..Len(conversations) :
                            conversations[i].user_message = s_x})

NextChat ==
    \/ /\ Len(conversations) < ChatTurns
       /\ add_conversation(s_hi, s_ok, None)
       /\ now' = now
    \/ /\ Len(conversations) < ChatTurns
       /\ OddTurns < MaxOdd
       /\ add_conversation(s_x, s_ok, None)
       /\ now' = now
    \/ /\ Len(conversations) < ChatTurns
       /\ now = 0       \* the clock moves during one turn of the chat
       /\ add_conversation(s_hi, s_ok, None)
       /\ now' > now

SpecChat == Init /\ [][NextChat]_vars

\* queries about the agent itself
BootQueries ==
    { <<
      "m",
      "e",
      "m",
      "o",
      "r",
      "y">>,
      <<
      "I",
      " ",
      "r",
      "e",
      "m",
      "e",
      "m",
      "b",
      "e",
      "r">>,
      <<
      "t",
      "e",
      "a">> }

----------------------------------------------------------------------------
(* SpecBoot: agents constructed one after another on one storage directory   *)
(* that takes every write, and searches of the facts between constructions   *)

MaxBoots == 3

NextBoot ==
    \/ /\ Len(facts) < 4 * MaxBoots
       /\ OpenAIAgent_init
    \/ /\ call.op = "OpenAIAgent"
       /\ \E q \in BootQueries, limit \in 0..MaxLimit : search_facts(q, limit)

SpecBoot == InitAgent /\ [][NextBoot]_vars

----------------------------------------------------------------------------
(* SpecFault: the three add calls on a storage directory that can stop and   *)
(* resume taking writes, with the clock standing still                       *)

NextFault ==
    \/ /\ Stored < MaxItems
       /\ \E c \in {s_Tea, s_Pot} : add_fact(c, None)
       /\ now' = now
    \/ /\ Stored < MaxItems
       /\ \E n \in {s_Tea, s_Bake_Cake} : add_procedure(n, <<s_a, s_b>>, None)
       /\ now' = now
    \/ /\ Stored < MaxItems
       /\ add_conversation(s_hi, s_ok, None)
       /\ now' = now
    \/ /\ call.op # "storage_fault"
       /\ storage_fault

SpecFault == Init /\ [][NextFault]_vars

----------------------------------------------------------------------------
(* SpecTwo: two stores open on one storage directory, whose add_fact calls   *)
(* come one after the other in any order                                     *)

TwoFacts == {s_Tea, s_Pot, s_tea_pot}

NextTwo ==
    \/ /\ Len(facts) + Len(second.facts) < MaxItems
       /\ \E c \in TwoFacts : add_fact(c, None)
       /\ now' = now
    \/ /\ ~second.open
       /\ second_init
    \/ /\ Len(facts) + Len(second.facts) < MaxItems
       /\ \E c \in TwoFacts : second_add_fact(c, None)
       /\ now' = now

SpecTwo == Init /\ [][NextTwo]_vars

----------------------------------------------------------------------------
(* The scraper: src/bedrock/scraper_lambda.py                                *)

MAX_RESPONSE_SIZE == 22000
max_size == 25000

\* s.split(sep) for a separator of one or more characters: the separators are
\* found from the left and do not overlap
RECURSIVE SplitOn(_, _)
SplitOn(s, sep) ==
    LET at == {i \in 1..(Len(s) - Len(sep) + 1) :
                  \A k \in 1..Len(sep) : s[i + k - 1] = sep[k]}
    IN IF at = {} THEN <<s>>
       ELSE LET i == CHOOSE i \in at : \A j \in at : i <= j
            IN <<SubSeq(s, 1, i - 1)>> \o SplitOn(SubSeq(s, i + Len(sep), Len(s)), sep)

\* str.splitlines() of a text whose only line boundary is "\n": no empty line
\* after a last "\n"
splitlines(s) ==
    LET parts == SplitOn(s, <<"\n">>)
    IN IF parts[Len(parts)] = <<>> THEN SubSeq(parts, 1, Len(parts) - 1) ELSE parts

\* s.replace(a, b) for two characters
replace(s, a, b) == [i \in 1..Len(s) |-> IF s[i] = a THEN b ELSE s[i]]

\* the stripped phrases of the stripped lines, in order, the empty ones dropped
Chunks(lines) ==
    LET Phrases(line) ==
            LET ps == SplitOn(strip(line), <<" ", " ">>)
                g[n \in 0..Len(ps)] ==
                    IF n = 0 THEN <<>>
                    ELSE IF strip(ps[n]) = <<>> THEN g[n-1]
                    ELSE Append(g[n-1], strip(ps[n]))
            IN g[Len(ps)]
        f[n \in 0..Len(lines)] ==
            IF n = 0 THEN <<>> ELSE f[n-1] \o Phrases(lines[n])
    IN f[Len(lines)]

\* parse_html_content of a page without markup, for which soup.get_text() is the
\* page: one chunk to a line, cut at max_size characters
parse_html_content(html_content) ==
    LET cleaned_text == Join(<<"\n">>, Chunks(splitlines(html_content)))
    IN IF Len(cleaned_text) > max_size
       THEN SubSeq(cleaned_text, 1, max_size)
       ELSE cleaned_text

s_http  == <<"h","t","t","p",":","/","/">>
s_https == <<"h","t","t","p","s",":","/","/">>
s_txt   == <<".","t","x","t">>

\* the URL that handle_search works with: 'http://' is put before an input that
\* starts with no scheme
NormalUrl(input_url) ==
    IF startswith(input_url, s_http) \/ startswith(input_url, s_https)
    THEN input_url
    ELSE s_http \o input_url

\* input_url.split('//')[-1].replace('/', '_') + '.txt'
FileNameOf(url) ==
    LET parts == SplitOn(url, <<"/", "/">>)
    IN replace(parts[Len(parts)], "/", "_") \o s_txt

\* the files that check_tmp_for_data reads: those whose name has the query in it
Matching(query, files) == {f \in files : contains(f.name, query)}

\* check_tmp_for_data: the contents of the matching files in the order of
\* os.listdir, which is any order; an empty list is returned as None
check_tmp_for_data(query, files) ==
    LET found == Matching(query, files)
        n == Cardinality(found)
    IN {[i \in 1..n |-> order[i].content] :
           order \in {o \in [1..n -> found] : \A i, j \in 1..n : o[i] = o[j] => i = j}}

\* len(json.dumps(s)) - 2 for a text of letters, spaces and line ends: a line
\* end is written as two characters
DumpedLen(s) == Len(s) + Cardinality({i \in 1..Len(s) : s[i] = "\n"})

\* sys.getsizeof(json.dumps(response_data)): the 49 bytes of an ASCII str object
\* and one byte for each character of {"url": "...", "content": "..."}
response_size(url, content) == 49 + 26 + DumpedLen(url) + DumpedLen(content)

\* the content of the response: cleaned_content[:(MAX_RESPONSE_SIZE - response_size)],
\* a slice with a negative end, when the response is over the limit
ResponseContent(url, content) ==
    LET over == response_size(url, content) - MAX_RESPONSE_SIZE
    IN IF over > 0
       THEN SubSeq(content, 1, IF Len(content) > over THEN Len(content) - over ELSE 0)
       ELSE content

ErrorDict(message) == [key |-> "error", value |-> message]
ResultsDict(value) == [key |-> "results", value |-> value]

\* handle_search(event) for an event whose property inputURL is input_url ('' when
\* the event has none). The environment decides whether /tmp can be emptied,
\* what the request of the page gives (None: an error or a redirect) and whether
\* the file can be written.
handle_search(input_url, emptied, page, saved) ==
    LET url      == NormalUrl(input_url)
        tmp_data == check_tmp_for_data(url, tmp)
    IN /\ call' = [op |-> "handle_search", input_url |-> input_url]
       /\ IF input_url = <<>>
          THEN /\ result' = Ok(ErrorDict("No URL provided"))
               /\ UNCHANGED <<tmp, fetched>>
          ELSE IF tmp_data # {<<>>}
          THEN /\ \E data \in tmp_data :
                     result' = Ok(ResultsDict([type |-> "list", items |-> data]))
               /\ UNCHANGED <<tmp, fetched>>
          ELSE IF ~emptied
          THEN /\ tmp' \in SUBSET tmp
               /\ result' = Ok(ErrorDict("Failed to empty /tmp folder"))
               /\ UNCHANGED fetched
          ELSE /\ fetched' = Append(fetched, url)
               /\ IF page = None
                  THEN /\ tmp' = {}
                       /\ result' = Ok(ErrorDict("Failed to retrieve content"))
                  ELSE LET cleaned_content == parse_html_content(page[1])
                           filename == FileNameOf(url)
                       IN IF ~saved
                          THEN /\ tmp' \in {{}, {[name |-> filename, content |-> <<>>]}}
                               /\ result' = Ok(ErrorDict("Failed to save to /tmp"))
                          ELSE /\ tmp' = {[name |-> filename, content |-> cleaned_content]}
                               /\ result' = Ok(ResultsDict(
                                      [type |-> "dict", url |-> url,
                                       content |-> ResponseContent(url, cleaned_content)]))
       /\ UNCHANGED <<facts, procedures, conversations, working_memory, pytype, disk,
                      alive, storage, now, old, second>>

\* a file that handle_search did not write is put in /tmp by the process that
\* shares the directory
other_file(name, content) ==
    /\ \A f \in tmp : f.name # name
    /\ tmp' = tmp \cup {[name |-> name, content |-> content]}
    /\ call' = [op |-> "other_file", name |-> name]
    /\ result' = Ok(<<>>)
    /\ UNCHANGED <<facts, procedures, conversations, working_memory, pytype, disk,
                   alive, storage, now, old, second, fetched>>

----------------------------------------------------------------------------
(* SpecScraper: searches for a few URLs, one after the other, on a /tmp that *)
(* another process may write to                                              *)

MaxFetches == 3

u_e_co       == <<"e",".","c","o">>
u_http_e_co  == <<"h","t","t","p",":","/","/","e",".","c","o">>
u_https_a_b  == <<"h","t","t","p","s",":","/","/","a",".","i","o","/","b">>
Urls == {<<>>, u_e_co, u_http_e_co, u_https_a_b}

p_tea_pot == <<" ","T","e","a"," "," ","p","o","t"," ","\n","h","o","t","\n">>
p_tea     == <<"T","e","a">>
Pages == {None, Some(p_tea_pot), Some(p_tea)}

n_e_co_txt == <<"e",".","c","o",".","t","x","t">>
n_http_e_co_txt == <<"h","t","t","p",":","_","_","e",".","c","o",".","t","x","t">>
OtherNames == {n_e_co_txt, n_http_e_co_txt}

NextScraper ==
    \/ /\ Len(fetched) < MaxFetches
       /\ \E input_url \in Urls, emptied \in BOOLEAN, page \in Pages, saved \in BOOLEAN :
             handle_search(input_url, emptied, page, saved)
    \/ /\ Cardinality(tmp) < 2
       /\ \E name \in OtherNames : other_file(name, s_Tea)

SpecScraper == Init /\ [][NextScraper]_vars

----------------------------------------------------------------------------
(* Properties *)

\* the items of a sequence with their multiplicities
BagOf(s) == [x \in Range(s) |-> Cardinality({i \in 1..Len(s) : s[i] = x})]

\* s without its k-th element
Without(s, k) == SubSeq(s, 1, k - 1) \o SubSeq(s, k + 1, Len(s))

\* (importance, timestamp) of x is at most that of y
PairAtMost(x, y) ==
    \/ x.importance < y.importance
    \/ x.importance = y.importance /\ x.timestamp <= y.timestamp

\* C1: after every add_to_working_memory and add_conversation call the working
\* memory holds at most working_memory_capacity (10) items.
C1_WithinCapacity == Len(working_memory) <= 10

\* C1 witness: a call has returned that found the working memory full.
C1_Witness ==
    /\ Len(old.working_memory) = 10
    /\ call.op \in {"add_to_working_memory", "add_conversation"}
    /\ Len(working_memory) = 10

\* C2: add_to_working_memory on a working memory holding capacity items removes
\* exactly one of the capacity + 1 items (the new one included) and keeps every
\* other one; the removed item has the minimum (importance, timestamp) pair, so
\* among equal importances an oldest timestamp goes.
C2_EvictsMinimum ==
    (call.op = "add_to_working_memory" /\ Len(old.working_memory) = 10) =>
        LET item == [content |-> call.content, importance |-> call.importance,
                     timestamp |-> call.timestamp]
            all  == Append(old.working_memory, item)
        IN \E k \in 1..Len(all) :
              /\ \A j \in 1..Len(all) : PairAtMost(all[k], all[j])
              /\ BagOf(working_memory) = BagOf(Without(all, k))
              /\ Len(working_memory) = 10

\* C2 witness: an eviction where two items share the lowest importance and the
\* one removed is the older of them although it was inserted later.
C2_Witness ==
    /\ call.op = "add_to_working_memory"
    /\ Len(old.working_memory) = 10
    /\ \E i \in 1..10 :
          /\ old.working_memory[i].importance = call.importance
          /\ old.working_memory[i].timestamp > call.timestamp
          /\ \A j \in 1..10 : old.working_memory[j].importance >= call.importance
    /\ \A j \in 1..10 : working_memory[j].importance > call.importance
                        \/ working_memory[j].timestamp > call.timestamp

\* the tokens of s as the pairs <<i, j>> of their first and last position: the
\* maximal runs of characters that are not whitespace
TokenSpans(s) ==
    {p \in (1..Len(s)) \X (1..Len(s)) :
        /\ p[1] <= p[2]
        /\ \A k \in p[1]..p[2] : s[k] \notin {" ", "\t", "\n"}
        /\ (p[1] = 1 \/ s[p[1] - 1] \in {" ", "\t", "\n"})
        /\ (p[2] = Len(s) \/ s[p[2] + 1] \in {" ", "\t", "\n"})}

\* t occurs in s
Occurs(t, s) == \E i \in 1..(Len(s) - Len(t) + 1) : \A k \in 1..Len(t) : s[i + k - 1] = t[k]

\* the number of tokens of the lower-cased query that occur in the lower-cased text
MatchCount(text, query) ==
    Cardinality({p \in TokenSpans(lower(query)) :
                    Occurs(SubSeq(lower(query), p[1], p[2]), lower(text))})

\* C3: search_facts(q) returns only stored facts whose lower-cased content
\* contains at least one whitespace-separated token of the lower-cased q.
C3_OnlyMatchingFacts ==
    (call.op = "search_facts" /\ result.status = "ok") =>
        \A k \in 1..Len(result.value) :
            /\ \E i \in 1..Len(facts) : facts[i] = result.value[k]
            /\ MatchCount(result.value[k].content, call.query) >= 1

\* C3 witness: the search for 'pot' returned the fact 'Pot' and left out a stored
\* fact that contains no token of the query.
C3_Witness ==
    /\ call.op = "search_facts"
    /\ call.query = <<"p","o","t">>
    /\ Len(facts) = 2
    /\ \E i \in 1..2 : MatchCount(facts[i].content, call.query) = 0
    /\ Len(result.value) = 1
    /\ result.value[1].content = <<"P","o","t">>

\* the first `limit` items of the matching items ordered by descending match
\* count, items of an equal count in their insertion order
RankedMatches(items, texts, query, limit) ==
    LET n == Len(items)
        M == {i \in 1..n : MatchCount(texts[i], query) > 0}
        Before(j, i) == \/ MatchCount(texts[j], query) > MatchCount(texts[i], query)
                        \/ /\ MatchCount(texts[j], query) = MatchCount(texts[i], query)
                           /\ j < i
        pos(i) == 1 + Cardinality({j \in M : Before(j, i)})
        len == IF limit < Cardinality(M) THEN limit ELSE Cardinality(M)
    IN [k \in 1..len |-> items[CHOOSE i \in M : pos(i) = k]]

\* C4: search_facts(q, limit) and search_conversations(q, limit) return exactly
\* the first limit items of the matching items sorted by descending match count,
\* items of an equal count in insertion order; a conversation is matched on
\* user_message + ' ' + agent_response.
C4_RankedFirstLimit ==
    /\ (call.op = "search_facts" /\ result.status = "ok") =>
          result.value = RankedMatches(facts,
                             [i \in 1..Len(facts) |-> facts[i].content],
                             call.query, call.limit)
    /\ (call.op = "search_conversations" /\ result.status = "ok") =>
          result.value = RankedMatches(conversations,
                             [i \in 1..Len(conversations) |->
                                 conversations[i].user_message \o <<" ">>
                                     \o conversations[i].agent_response],
                             call.query, call.limit)

\* C4 witness: a search put a later fact of a higher count before an earlier one
\* and cut the list at the limit.
C4_Witness ==
    /\ call.op = "search_facts"
    /\ call.limit = 1
    /\ Len(facts) = 2
    /\ MatchCount(facts[1].content, call.query) = 1
    /\ MatchCount(facts[2].content, call.query) >= 2
    /\ result.value = <<facts[2]>>

\* C4 witness for conversations: 'po' and 't' joined by the space do not match
\* 'pot', while a later turn does.
C4_ConversationWitness ==
    /\ call.op = "search_conversations"
    /\ call.query = <<"p","o","t">>
    /\ Len(conversations) = 2
    /\ conversations[1].user_message = <<"p","o">>
    /\ result.value = <<conversations[2]>>

\* C9: for count >= 0 and n stored conversations, get_recent_conversations(count)
\* returns exactly the last min(count, n) conversations, oldest first.
C9_LastCount ==
    (call.op = "get_recent_conversations" /\ result.status = "ok" /\ call.count >= 0) =>
        LET n == Len(conversations)
            m == IF call.count < n THEN call.count ELSE n
        IN result.value = SubSeq(conversations, n - m + 1, n)

\* C5: the procedures hold one procedure per name; an add_procedure call leaves
\* the procedure of its name with the steps and the description of that call and
\* usage_count 0, and every other procedure as it was (overwrite, never merge).
C5_OneProcedurePerName ==
    /\ \A i, j \in 1..Len(procedures) :
          procedures[i].name = procedures[j].name => i = j
    /\ \A i \in 1..Len(procedures) : procedures[i].usage_count = 0
    /\ (call.op = "add_procedure" /\ result.status = "ok") =>
          /\ \E i \in 1..Len(procedures) :
                /\ procedures[i].name = call.name
                /\ procedures[i].steps = call.steps
                /\ procedures[i].description = call.description
          /\ {procedures[i].name : i \in 1..Len(procedures)} =
                {old.procedures[i].name : i \in 1..Len(old.procedures)} \cup {call.name}
          /\ \A i \in 1..Len(old.procedures) :
                old.procedures[i].name # call.name =>
                    \E j \in 1..Len(procedures) : procedures[j] = old.procedures[i]

\* C5 witness: a procedure with steps a, b was stored again with the step c alone.
C5_Witness ==
    /\ call.op = "add_procedure"
    /\ call.steps = << <<"c">> >>
    /\ \E i \in 1..Len(old.procedures) :
          /\ old.procedures[i].name = call.name
          /\ old.procedures[i].steps = << <<"a">>, <<"b">> >>
    /\ Len(procedures) = 2

\* the description as text, an absent one being the empty string
DescriptionText(p) == IF p.description = <<>> THEN <<>> ELSE p.description[1]

\* C8: search_procedures(q, limit) returns the first limit of the procedures for
\* which the whole lower-cased q occurs in the lower-cased name + ' ' +
\* description, ordered by descending usage_count; the query is not tokenized.
C8_WholeQuerySubstring ==
    (call.op = "search_procedures" /\ result.status = "ok") =>
        LET n == Len(procedures)
            M == {i \in 1..n :
                     Occurs(lower(call.query),
                            lower(procedures[i].name \o <<" ">>
                                      \o DescriptionText(procedures[i])))}
            Before(j, i) ==
                \/ procedures[j].usage_count > procedures[i].usage_count
                \/ procedures[j].usage_count = procedures[i].usage_count /\ j < i
            pos(i) == 1 + Cardinality({j \in M : Before(j, i)})
            len == IF call.limit < Cardinality(M) THEN call.limit ELSE Cardinality(M)
        IN result.value = [k \in 1..len |-> procedures[CHOOSE i \in M : pos(i) = k]]

\* C8 on the procedures that were stored with a description: such a procedure is
\* returned, the limit allowing, exactly when the whole query occurs in its text.
C8_DescribedProcedures ==
    (/\ call.op = "search_procedures"
     /\ result.status = "ok"
     /\ call.limit >= Len(procedures)) =>
        \A i \in 1..Len(procedures) :
            procedures[i].description # <<>> =>
                ((\E k \in 1..Len(result.value) : result.value[k] = procedures[i])
                 <=> Occurs(lower(call.query),
                            lower(procedures[i].name \o <<" ">>
                                      \o procedures[i].description[1])))

\* C6 as claimed: a store constructed on the directory of a store has facts,
\* procedures and conversations equal to those of the store before, and an empty
\* working memory.
C6_RestartEqual ==
    (call.op = "__init__" /\ old.alive) =>
        /\ result.status = "ok"
        /\ facts = old.facts
        /\ procedures = old.procedures
        /\ conversations = old.conversations
        /\ working_memory = <<>>

\* a metadata value read back: what it was, a tuple having become a list
ReadBack(v) == IF v.type = "tuple" THEN [v EXCEPT !.type = "list"] ELSE v

\* C6 amended: facts and procedures are equal to those of the store before;
\* conversations are equal in number, order, messages and timestamps, and in
\* metadata up to a tuple being read back as a list; the working memory is empty.
C6_RestartEqualUpToJson ==
    (call.op = "__init__" /\ old.alive) =>
        /\ result.status = "ok"
        /\ facts = old.facts
        /\ procedures = old.procedures
        /\ Len(conversations) = Len(old.conversations)
        /\ \A i \in 1..Len(conversations) :
              /\ conversations[i].user_message = old.conversations[i].user_message
              /\ conversations[i].agent_response = old.conversations[i].agent_response
              /\ conversations[i].timestamp = old.conversations[i].timestamp
              /\ Len(conversations[i].metadata) = Len(old.conversations[i].metadata)
              /\ \A k \in 1..Len(conversations[i].metadata) :
                    /\ conversations[i].metadata[k].key =
                          old.conversations[i].metadata[k].key
                    /\ conversations[i].metadata[k].value =
                          ReadBack(old.conversations[i].metadata[k].value)
        /\ working_memory = <<>>

\* C6 witness: a store holding a fact, a procedure and a turn with a tuple in its
\* metadata, and two working-memory items, was constructed anew.
C6_Witness ==
    /\ call.op = "__init__"
    /\ Len(facts) = 1
    /\ Len(procedures) = 1
    /\ Len(conversations) = 1
    /\ Len(conversations[1].metadata) = 1
    /\ old.conversations[1].metadata[1].value.type = "tuple"
    /\ Len(old.working_memory) = 2
    /\ working_memory = <<>>

\* a backing file that exists and does not hold a collection of the expected kind
NotTheExpected(file, jsontype) ==
    /\ file.kind # "missing"
    /\ ~ (file.kind = "json" /\ file.type = jsontype)

\* C7: a construction never raises, and a backing file that exists but cannot be
\* read as the expected collection gives the empty default of that collection.
C7_ReadFailureGivesDefault ==
    (call.op = "__init__") =>
        /\ result.status = "ok"
        /\ NotTheExpected(facts_file, "array") =>
              (pytype.facts = "list" /\ facts = <<>>)
        /\ NotTheExpected(procedures_file, "object") =>
              (pytype.procedures = "dict" /\ procedures = <<>>)
        /\ NotTheExpected(conversations_file, "array") =>
              (pytype.conversations = "list" /\ conversations = <<>>)

\* C7 on the files that hold no JSON at all: the construction returns with the
\* empty default for them.
C7_InvalidJsonGivesDefault ==
    (/\ call.op = "__init__"
     /\ \A file \in {facts_file, procedures_file, conversations_file} :
           file.kind \in {"missing", "invalid"}) =>
        /\ result.status = "ok"
        /\ facts_file.kind = "invalid" => (pytype.facts = "list" /\ facts = <<>>)
        /\ procedures_file.kind = "invalid" =>
              (pytype.procedures = "dict" /\ procedures = <<>>)
        /\ conversations_file.kind = "invalid" =>
              (pytype.conversations = "list" /\ conversations = <<>>)

\* C9 for a count of at least 1: the last min(count, n) conversations, oldest
\* first.
C9_LastCountPositive ==
    (call.op = "get_recent_conversations" /\ result.status = "ok" /\ call.count >= 1) =>
        LET n == Len(conversations)
            m == IF call.count < n THEN call.count ELSE n
        IN result.value = SubSeq(conversations, n - m + 1, n)

\* C10: add_conversation(u, a) appends exactly the turn (u, a) to conversations
\* and changes the working memory as inserting 'User: u' at importance 1.0 and
\* then 'Agent: a' at importance 0.9 does, each under the eviction rule.
C10_ConversationThenTwoInsertions ==
    (call.op = "add_conversation" /\ result.status = "ok") =>
        /\ Len(conversations) = Len(old.conversations) + 1
        /\ SubSeq(conversations, 1, Len(old.conversations)) = old.conversations
        /\ conversations[Len(conversations)].user_message = call.user_message
        /\ conversations[Len(conversations)].agent_response = call.agent_response
        /\ working_memory =
              AddToWorkingMemory(
                  AddToWorkingMemory(old.working_memory,
                      <<"U","s","e","r",":"," ">> \o call.user_message, 10,
                      call.timestamps[2]),
                  <<"A","g","e","n","t",":"," ">> \o call.agent_response, 9,
                  call.timestamps[3])

\* C10 witness: a turn was added to a working memory with one free place, so
\* the second insertion evicts.
C10_Witness ==
    /\ call.op = "add_conversation"
    /\ result.status = "ok"
    /\ Len(old.working_memory) = 9
    /\ Len(working_memory) = 10

\* text.split("\n"): the lines of a text
Lines(text) ==
    LET n == Len(text)
        cuts == {0, n + 1} \cup {i \in 1..n : text[i] = "\n"}
        nth(k) == CHOOSE c \in cuts : Cardinality({d \in cuts : d < c}) = k
    IN [k \in 1..(Cardinality(cuts) - 1) |-> SubSeq(text, nth(k - 1) + 1, nth(k) - 1)]

SectionHeaders ==
    {WorkingMemoryHeader, RecentHeader, FactsHeader, ProceduresHeader}

\* the line that begins at position i of the text is the header h
HeaderAt(text, i, h) ==
    /\ i = 1 \/ text[i - 1] = "\n"
    /\ i + Len(h) - 1 <= Len(text)
    /\ SubSeq(text, i, i + Len(h) - 1) = h
    /\ i + Len(h) - 1 = Len(text) \/ text[i + Len(h)] = "\n"

\* the lines of a context text under a header, up to the next header
Section(text, header) ==
    LET n == Len(text)
        marks == {i \in 1..n : text[i] = "#" /\ (i = 1 \/ text[i - 1] = "\n")}
        h == CHOOSE i \in marks : HeaderAt(text, i, header)
        stops == {i \in marks : i > h /\ \E x \in SectionHeaders : HeaderAt(text, i, x)}
        e == IF stops = {} THEN n + 2 ELSE CHOOSE i \in stops : \A j \in stops : i <= j
    IN IF h + Len(header) - 1 = n THEN <<>>
       ELSE Lines(SubSeq(text, h + Len(header) + 1, e - 2))

\* C11: the context text generated right after add_conversation(u, a) shows the
\* lines 'User: u', 'Agent: a' in the Recent Conversation History section, and
\* its working-memory section holds '- User: u' above '- Agent: a'.
C11_ContextShowsTurn ==
    (/\ call.op = "generate_context_for_llm"
     /\ result.status = "ok"
     /\ conversations # <<>>) =>
        LET turn == conversations[Len(conversations)]
            u == <<"U","s","e","r",":"," ">> \o turn.user_message
            a == <<"A","g","e","n","t",":"," ">> \o turn.agent_response
            recent == Section(result.value, RecentHeader)
            working == Section(result.value, WorkingMemoryHeader)
        IN /\ \E i \in 1..(Len(recent) - 1) : recent[i] = u /\ recent[i + 1] = a
           /\ \E i, j \in 1..Len(working) :
                 /\ i < j
                 /\ working[i] = <<"-"," ">> \o u
                 /\ working[j] = <<"-"," ">> \o a

\* the number of items that the two insertions of one add_conversation call evict
\* from a working memory of n items
Evictions(n) == IF n + 2 > 10 THEN n + 2 - 10 ELSE 0

\* C11 amended: the context text generated right after add_conversation(u, a)
\* shows the turn in the Recent Conversation History section; its working-memory
\* section holds '- User: u' above '- Agent: a' whenever the working memory
\* before the call held at least as many items of an importance below 0.9 as
\* the call evicts (none when it held at most 8 items).
C11_ShowsTurnUnlessEvicted ==
    (/\ call.op = "generate_context_for_llm"
     /\ result.status = "ok"
     /\ conversations # <<>>) =>
        LET turn == conversations[Len(conversations)]
            u == <<"U","s","e","r",":"," ">> \o turn.user_message
            a == <<"A","g","e","n","t",":"," ">> \o turn.agent_response
            recent == Section(result.value, RecentHeader)
            working == Section(result.value, WorkingMemoryHeader)
            before == old.working_memory
            low == {i \in 1..Len(before) : before[i].importance < 9}
        IN /\ \E i \in 1..(Len(recent) - 1) : recent[i] = u /\ recent[i + 1] = a
           /\ Cardinality(low) >= Evictions(Len(before)) =>
                 \E i, j \in 1..Len(working) :
                    /\ i < j
                    /\ working[i] = <<"-"," ">> \o u
                    /\ working[j] = <<"-"," ">> \o a

\* C11 witness: a turn was added to a full working memory holding two items of
\* importance 0.5, both were evicted, and the context shows the agent's line.
C11_Witness ==
    /\ call.op = "generate_context_for_llm"
    /\ Len(old.working_memory) = 10
    /\ Cardinality({i \in 1..10 : old.working_memory[i].importance < 9}) = 2
    /\ \A i \in 1..10 : working_memory[i].importance >= 9
    /\ \E i \in 1..10 :
          Section(result.value, WorkingMemoryHeader)[i] =
              <<"-"," ","A","g","e","n","t",":"," ","o","k">>

\* the lines of a section that lists the given lines: "\n".join of them (one
\* empty line when there are none), then the empty line that ends the section
Listed(lines) == (IF lines = <<>> THEN << <<>> >> ELSE lines) \o << <<>> >>

\* the working-memory items ordered by descending (importance, timestamp), items
\* of an equal pair in their order in the working memory
RankedItems(wm) ==
    LET Above(j, i) ==
            \/ wm[j].importance > wm[i].importance
            \/ wm[j].importance = wm[i].importance /\ wm[j].timestamp > wm[i].timestamp
            \/ /\ wm[j].importance = wm[i].importance
               /\ wm[j].timestamp = wm[i].timestamp
               /\ j < i
        pos(i) == 1 + Cardinality({j \in 1..Len(wm) : Above(j, i)})
    IN [k \in 1..Len(wm) |-> wm[CHOOSE i \in 1..Len(wm) : pos(i) = k]]

\* the lines of a section that begin with a prefix, without the prefix
WithPrefix(lines, prefix) ==
    LET has(l) == Len(l) >= Len(prefix) /\ SubSeq(l, 1, Len(prefix)) = prefix
        f[n \in 0..Len(lines)] ==
            IF n = 0 THEN <<>>
            ELSE IF has(lines[n])
                 THEN Append(f[n-1], SubSeq(lines[n], Len(prefix) + 1, Len(lines[n])))
                 ELSE f[n-1]
    IN f[Len(lines)]

\* C12: the text of generate_context_for_llm(m) lists every working-memory item
\* by descending (importance, timestamp), then the last min(3, n) conversations
\* in insertion order, then the facts that search_facts(m) returns with its
\* default limit 3, then the procedures that search_procedures(m) returns with
\* its default limit 2.
C12_ContextSections ==
    (call.op = "generate_context_for_llm" /\ result.status = "ok") =>
        LET m == call.current_message
            n == Len(conversations)
            k == IF n < 3 THEN n ELSE 3
            ranked == RankedItems(working_memory)
            found == RankedMatches(facts, [i \in 1..Len(facts) |-> facts[i].content], m, 3)
            procs == SearchProcedures(procedures, m, 2)
            ls == result.value
        IN /\ Section(ls, WorkingMemoryHeader) =
                 Listed([i \in 1..Len(ranked) |-> <<"-"," ">> \o ranked[i].content])
           /\ Section(ls, RecentHeader) =
                 Listed([i \in 1..(2 * k) |->
                            IF i % 2 = 1
                            THEN <<"U","s","e","r",":"," ">>
                                    \o conversations[n - k + (i + 1) \div 2].user_message
                            ELSE <<"A","g","e","n","t",":"," ">>
                                    \o conversations[n - k + i \div 2].agent_response])
           /\ Section(ls, FactsHeader) =
                 Listed([i \in 1..Len(found) |-> <<"-"," ">> \o found[i].content])
           /\ WithPrefix(Section(ls, ProceduresHeader),
                         <<"P","r","o","c","e","d","u","r","e",":"," ">>) =
                 [i \in 1..Len(procs) |-> procs[i].name]

\* C12 witness: a context generated on four conversations lists three turns
\* and the eight working-memory items.
C12_Witness ==
    /\ call.op = "generate_context_for_llm"
    /\ result.status = "ok"
    /\ Len(conversations) = 4
    /\ Len(Section(result.value, RecentHeader)) = 7
    /\ Len(Section(result.value, WorkingMemoryHeader)) = 9

\* C12 witness for the working memory: of two items of one importance the later
\* one is listed first, below the lines of a turn that was added after both.
C12_TimestampWitness ==
    /\ call.op = "generate_context_for_llm"
    /\ result.status = "ok"
    /\ Len(working_memory) = 4
    /\ working_memory[1] = [content |-> <<"T">>, importance |-> 5, timestamp |-> 0]
    /\ working_memory[2] = [content |-> <<"x">>, importance |-> 5, timestamp |-> 1]
    /\ SubSeq(Section(result.value, WorkingMemoryHeader), 3, 4) =
          << <<"-"," ","x">>, <<"-"," ","T">> >>

\* C12 witness for the procedures: three stored procedures match and two are
\* listed.
C12_ProceduresWitness ==
    /\ call.op = "generate_context_for_llm"
    /\ result.status = "ok"
    /\ Len(SearchProcedures(procedures, call.current_message, 3)) = 3
    /\ Len(WithPrefix(Section(result.value, ProceduresHeader),
                      <<"P","r","o","c","e","d","u","r","e",":"," ">>)) = 2

\* C12 witness for the facts: four stored facts match and three are listed.
C12_FactsWitness ==
    /\ call.op = "generate_context_for_llm"
    /\ result.status = "ok"
    /\ Len(facts) = 4
    /\ Len(Section(result.value, FactsHeader)) = 4

ReadingCalls ==
    {"generate_context_for_llm", "search_facts", "search_conversations",
     "search_procedures", "get_recent_conversations"}

\* C13: a call of generate_context_for_llm, search_facts, search_conversations,
\* search_procedures or get_recent_conversations leaves facts, procedures,
\* conversations, the working memory (items and order) and the three backing
\* files as they were.
C13_ReadsChangeNothing ==
    [][call'.op \in ReadingCalls =>
          /\ facts' = facts
          /\ procedures' = procedures
          /\ conversations' = conversations
          /\ working_memory' = working_memory
          /\ facts_file' = facts_file
          /\ procedures_file' = procedures_file
          /\ conversations_file' = conversations_file]_vars

\* C13 witness: a context was generated on a working memory that is not in the
\* order of the text, with a fact stored and its file written.
C13_Witness ==
    /\ call.op = "generate_context_for_llm"
    /\ result.status = "ok"
    /\ Len(working_memory) = 2
    /\ working_memory[1].importance < working_memory[2].importance
    /\ Len(facts) = 1
    /\ facts_file.kind = "json"

\* C14: add_to_working_memory leaves facts, procedures, conversations and the
\* three files as they were; add_fact changes nothing but facts and the facts
\* file; add_procedure nothing but procedures and the procedures file;
\* add_conversation nothing but conversations, the conversations file and the
\* working memory.
C14_OwnCollectionOnly ==
    /\ call.op = "add_to_working_memory" =>
          /\ facts = old.facts
          /\ procedures = old.procedures
          /\ conversations = old.conversations
          /\ facts_file = old.facts_file
          /\ procedures_file = old.procedures_file
          /\ conversations_file = old.conversations_file
    /\ call.op = "add_fact" =>
          /\ procedures = old.procedures
          /\ conversations = old.conversations
          /\ working_memory = old.working_memory
          /\ procedures_file = old.procedures_file
          /\ conversations_file = old.conversations_file
    /\ call.op = "add_procedure" =>
          /\ facts = old.facts
          /\ conversations = old.conversations
          /\ working_memory = old.working_memory
          /\ facts_file = old.facts_file
          /\ conversations_file = old.conversations_file
    /\ call.op = "add_conversation" =>
          /\ facts = old.facts
          /\ procedures = old.procedures
          /\ facts_file = old.facts_file
          /\ procedures_file = old.procedures_file

\* C14 witness: a fact was added to a store that holds a procedure, a turn and a
\* working memory, each with its file written.
C14_Witness ==
    /\ call.op = "add_fact"
    /\ result.status = "ok"
    /\ Len(procedures) = 1
    /\ Len(conversations) = 1
    /\ Len(working_memory) = 3
    /\ procedures_file.kind = "json"
    /\ conversations_file.kind = "json"
    /\ facts_file.items # old.facts_file.items

----------------------------------------------------------------------------
(* The agent's commands *)

\* the message begins with the prefix, letter case apart
BeginsWith(message, prefix) ==
    /\ Len(message) >= Len(prefix)
    /\ \A i \in 1..Len(prefix) : lower_char(message[i]) = prefix[i]

HasColon(message) == \E i \in 1..Len(message) : message[i] = ":"

IsFactCommand(message) ==
    BeginsWith(message, <<"r","e","m","e","m","b","e","r"," ","t","h","a","t">>)

IsProcedureCommand(message) ==
    /\ BeginsWith(message, <<"r","e","m","e","m","b","e","r"," ","t","h","e"," ",
                             "s","t","e","p","s"," ","f","o","r">>)
    /\ HasColon(message)

\* C15: a query whose message is a learn-fact or a learn-procedure command makes
\* no request to the model and leaves the conversations, their file and the
\* working memory as they were; when the storage takes the write, it adds one
\* fact, or stores one procedure whose name is part of the message, leaves the
\* other collection alone and returns the confirmation for what it stored.
C15_CommandsBypassModel ==
    (call.op = "query" /\ (IsFactCommand(call.user_message)
                           \/ IsProcedureCommand(call.user_message))) =>
        /\ call.llm_calls = 0
        /\ conversations = old.conversations
        /\ conversations_file = old.conversations_file
        /\ working_memory = old.working_memory
        /\ storage = "ok" =>
              IF IsFactCommand(call.user_message)
              THEN /\ Len(facts) = Len(old.facts) + 1
                   /\ SubSeq(facts, 1, Len(old.facts)) = old.facts
                   /\ result = Ok(FactConfirmation \o facts[Len(facts)].content)
                   /\ procedures = old.procedures
              ELSE /\ facts = old.facts
                   /\ \E i \in 1..Len(procedures) :
                         /\ result = Ok(ProcedureConfirmation \o procedures[i].name)
                         /\ Occurs(procedures[i].name, call.user_message)
                         /\ procedures[i].steps # <<>>
                         /\ procedures_file = save_json("dict", procedures)

\* a learn-procedure command has been confirmed after a learn-fact command
C15_Witness ==
    /\ call.op = "query"
    /\ IsProcedureCommand(call.user_message)
    /\ result = Ok(ProcedureConfirmation \o <<"T","e","a">>)
    /\ Len(facts) = 5
    /\ facts[5].content = <<"t","e","a"," ","i","s"," ","h","o","t">>
    /\ conversations = <<>>

\* the message begins with "remember that " (the space included), letter case apart
HasFactPrefix(message) ==
    BeginsWith(message, <<"r","e","m","e","m","b","e","r"," ","t","h","a","t"," ">>)

\* the query was taken as a learn-fact command: without a request to the model
\* it appended a fact
TakenAsFactCommand ==
    /\ call.op = "query"
    /\ call.llm_calls = 0
    /\ Len(facts) = Len(old.facts) + 1

\* C16: a query is taken as a learn-fact command exactly when its message begins,
\* letter case apart, with "remember that " (the space included), and the fact it
\* then stores is the whole rest of the message after these fourteen characters,
\* trimmed of surrounding whitespace.
C16_FactCommandExactly ==
    call.op = "query" =>
        /\ TakenAsFactCommand <=> HasFactPrefix(call.user_message)
        /\ HasFactPrefix(call.user_message) =>
              facts[Len(facts)].content =
                 strip(SubSeq(call.user_message, 15, Len(call.user_message)))

\* what holds of the code: the thirteen characters "remember that" decide, and
\* the fact is the message from its fifteenth character on, trimmed
C16_ThirteenDecideFourteenCut ==
    call.op = "query" =>
        /\ TakenAsFactCommand <=> IsFactCommand(call.user_message)
        /\ IsFactCommand(call.user_message) =>
              facts[Len(facts)].content =
                 strip(SubSeq(call.user_message, 15, Len(call.user_message)))

\* "remember thatcher won" has been stored as the fact "her won"
C16_DroppedCharacter ==
    /\ call.op = "query"
    /\ call.user_message = m_remember_thatcher
    /\ call.llm_calls = 0
    /\ facts[Len(facts)].content = <<"h","e","r"," ","w","o","n">>
    /\ result = Ok(FactConfirmation \o <<"h","e","r"," ","w","o","n">>)

----------------------------------------------------------------------------
(* The agent's requests to the model *)

\* C17: when the request to the model fails, query returns a text that begins
\* "Error: API request failed: " and carries the message of the failure, it has
\* made that one request and no other, and the conversations, the working
\* memory, the facts, the procedures and the three files are as before the call.
C17_FailedRequestRecordsNothing ==
    (call.op = "query" /\ call.llm = "failed") =>
        /\ result.status = "ok"
        /\ \E e \in {o.text : o \in {x \in LLMOutcomes : x.status = "failed"}} :
              result.value = ErrorPrefix \o e
        /\ call.llm_calls = 1
        /\ conversations = old.conversations
        /\ working_memory = old.working_memory
        /\ facts = old.facts
        /\ procedures = old.procedures
        /\ facts_file = old.facts_file
        /\ procedures_file = old.procedures_file
        /\ conversations_file = old.conversations_file

\* a request has failed after an answered one
C17_Witness ==
    /\ call.op = "query"
    /\ call.llm = "failed"
    /\ call.user_message = m_ask
    /\ Len(conversations) = 1
    /\ Len(working_memory) = 2
    /\ result = Ok(ErrorPrefix \o <<"q","u","o","t","a">>)

----------------------------------------------------------------------------
(* Malformed commands and failing writes *)

\* the message begins with "remember the steps for", letter case apart
HasStepsPrefix(message) ==
    BeginsWith(message, <<"r","e","m","e","m","b","e","r"," ","t","h","e"," ",
                          "s","t","e","p","s"," ","f","o","r">>)

\* C18: a query whose message begins with "remember the steps for" and has no
\* colon returns the usage hint, makes no request to the model, and leaves the
\* facts, the procedures, the conversations, the working memory and the three
\* files as they were.
C18_MalformedStepsGiveHint ==
    (call.op = "query" /\ HasStepsPrefix(call.user_message)
                       /\ ~ HasColon(call.user_message)) =>
        /\ result = Ok(UsageHint)
        /\ call.llm_calls = 0
        /\ facts = old.facts
        /\ procedures = old.procedures
        /\ conversations = old.conversations
        /\ working_memory = old.working_memory
        /\ facts_file = old.facts_file
        /\ procedures_file = old.procedures_file
        /\ conversations_file = old.conversations_file

\* the hint has been given to an agent that had learned a procedure
C18_Witness ==
    /\ call.op = "query"
    /\ call.user_message = m_steps_malformed
    /\ result = Ok(UsageHint)
    /\ Len(procedures) = 1
    /\ procedures_file = save_json("dict", procedures)

\* the last call of the agent came to write a file: learn_fact, learn_procedure,
\* a query with a command, or a query that the model answered
AgentWrote ==
    \/ call.op \in {"learn_fact", "learn_procedure"}
    \/ /\ call.op = "query"
       /\ \/ IsFactCommand(call.user_message)
          \/ IsProcedureCommand(call.user_message)
          \/ call.llm = "ok"

\* C19: a call of query, learn_fact or learn_procedure whose write fails raises
\* the failure of the write to its caller; no text is returned in its place.
C19_WriteFailurePropagates ==
    (AgentWrote /\ storage # "ok") => result = RaisedOSError

\* what holds of the code: the failure is raised by learn_fact, learn_procedure
\* and a query with a command, and a query that the model answered returns it
\* as the text of a failed request
C19_PropagatesOutsideTry ==
    (AgentWrote /\ storage # "ok") =>
        IF call.op = "query" /\ call.llm = "ok"
        THEN result = Ok(ErrorPrefix \o ExceptionText(RaisedOSError))
        ELSE result = RaisedOSError

\* the model answered, the write of the turn failed, and query returned a text
C19_SwallowedWriteFailure ==
    /\ call.op = "query"
    /\ call.llm = "ok"
    /\ storage # "ok"
    /\ result.status = "ok"
    /\ startswith(result.value, ErrorPrefix)
    /\ Len(conversations) = Len(old.conversations) + 1
    /\ working_memory = old.working_memory

\* a command's failing write has been raised to the caller of query
C19_RaisedFromCommand ==
    /\ call.op = "query"
    /\ IsFactCommand(call.user_message)
    /\ storage # "ok"
    /\ result = RaisedOSError

----------------------------------------------------------------------------
(* The steps of a query *)

\* the lines of the turns, "User: ..." then "Agent: ...", of the last k of convs
TurnLines(convs, k) ==
    LET n == Len(convs)
    IN [i \in 1..(2 * k) |->
           IF i % 2 = 1
           THEN <<"U","s","e","r",":"," ">> \o convs[n - k + (i + 1) \div 2].user_message
           ELSE <<"A","g","e","n","t",":"," ">> \o convs[n - k + i \div 2].agent_response]

\* C20: a query whose message is no command makes one request to the model; the
\* context it sends was built before the turn was stored: its working-memory
\* section lists the items the working memory held before the call and its
\* history section the last min(3, n) of the n conversations stored before the
\* call; when the model answers and the write succeeds, the conversations are
\* the earlier ones followed by the one turn of this message and this answer,
\* the file holds them, and the answer is returned.
C20_ContextThenRequestThenStore ==
    (call.op = "query" /\ ~ IsFactCommand(call.user_message)
                       /\ ~ HasStepsPrefix(call.user_message)) =>
        LET n == Len(old.conversations)
            k == IF n < 3 THEN n ELSE 3
            ranked == RankedItems(old.working_memory)
        IN /\ call.llm_calls = 1
           /\ Section(call.context, WorkingMemoryHeader) =
                 Listed([i \in 1..Len(ranked) |-> <<"-"," ">> \o ranked[i].content])
           /\ Section(call.context, RecentHeader) = Listed(TurnLines(old.conversations, k))
           /\ (call.llm = "ok" /\ storage = "ok") =>
                 /\ Len(conversations) = n + 1
                 /\ SubSeq(conversations, 1, n) = old.conversations
                 /\ conversations[n + 1].user_message = call.user_message
                 /\ conversations[n + 1].agent_response = result.value
                 /\ result \in {Ok(o.text) : o \in {x \in LLMOutcomes : x.status = "ok"}}
                 /\ conversations_file = save_json("list", conversations)

\* a second question has been answered: its context showed the first turn only
C20_Witness ==
    /\ call.op = "query"
    /\ call.user_message = m_ask
    /\ call.llm = "ok"
    /\ result = Ok(s_ok)
    /\ Len(conversations) = 2
    /\ Section(call.context, RecentHeader) =
          << <<"U","s","e","r",":"," ","t","e","a","?">>,
             <<"A","g","e","n","t",":"," ","o","k">>, <<>> >>
    /\ Len(Section(call.context, WorkingMemoryHeader)) = 3

----------------------------------------------------------------------------
(* The life of the collections *)

\* s is a prefix of t
IsPrefix(s, t) == Len(s) <= Len(t) /\ SubSeq(t, 1, Len(s)) = s

\* a turn as json.load reads it back from what json.dump wrote: a tuple in its
\* metadata has become a list
TurnReadBack(conv) ==
    [conv EXCEPT !.metadata =
        [k \in 1..Len(@) |-> [key |-> @[k].key, value |-> ReadBack(@[k].value)]]]

\* s is a prefix of t, a turn of s being in t as it is or as it is read back
IsPrefixReadBack(s, t) ==
    /\ Len(s) <= Len(t)
    /\ \A i \in 1..Len(s) : t[i] \in {s[i], TurnReadBack(s[i])}

HoldsAll(file, jsontype, collection) ==
    /\ file.kind = "json"
    /\ file.type = jsontype
    /\ Len(file.items) = Len(collection)
    /\ \A i \in 1..Len(collection) :
          IF "metadata" \in DOMAIN collection[i]
          THEN /\ [file.items[i] EXCEPT !.metadata = <<>>]
                     = [collection[i] EXCEPT !.metadata = <<>>]
               /\ Len(file.items[i].metadata) = Len(collection[i].metadata)
               /\ \A k \in 1..Len(collection[i].metadata) :
                     /\ file.items[i].metadata[k].key = collection[i].metadata[k].key
                     /\ file.items[i].metadata[k].value.items
                           = collection[i].metadata[k].value.items
          ELSE file.items[i] = collection[i]

\* C22: after add_fact, add_procedure or add_conversation has completed without
\* raising, the backing file of its collection holds the whole collection of the
\* store: every entry, in order.
C22_FileHoldsWholeCollection ==
    /\ (call.op = "add_fact" /\ result.status = "ok") =>
          HoldsAll(facts_file, "array", facts)
    /\ (call.op = "add_procedure" /\ result.status = "ok") =>
          HoldsAll(procedures_file, "object", procedures)
    /\ (call.op = "add_conversation" /\ result.status = "ok") =>
          HoldsAll(conversations_file, "array", conversations)

\* a third fact was added, and the file that held two facts holds the three
C22_Witness ==
    /\ call.op = "add_fact"
    /\ result.status = "ok"
    /\ Len(facts) = 3
    /\ Len(facts_file.items) = 3
    /\ working_memory = <<>>
    /\ old.facts_file.items = SubSeq(facts, 1, 2)

----------------------------------------------------------------------------
(* Procedures without a description, and the order of the matches *)

\* C23: a procedure stored without a description is in the result of
\* search_procedures(q, limit), the limit allowing, exactly when the lower-cased
\* q occurs in the lower-cased name followed by one space.
C23_NoDescriptionMatchesName ==
    (/\ call.op = "search_procedures"
     /\ result.status = "ok"
     /\ call.limit >= Len(procedures)) =>
        \A i \in 1..Len(procedures) :
            procedures[i].description = None =>
                ((\E k \in 1..Len(result.value) : result.value[k] = procedures[i])
                 <=> Occurs(lower(call.query), lower(procedures[i].name \o <<" ">>)))

\* what holds of the code: the text searched is the name, a space and "none"
C23_NoDescriptionMatchesNone ==
    (/\ call.op = "search_procedures"
     /\ result.status = "ok"
     /\ call.limit >= Len(procedures)) =>
        \A i \in 1..Len(procedures) :
            procedures[i].description = None =>
                ((\E k \in 1..Len(result.value) : result.value[k] = procedures[i])
                 <=> Occurs(lower(call.query),
                            lower(procedures[i].name) \o <<" ","n","o","n","e">>))

\* the query "none" has found a procedure that has no description
C23_FoundByNone ==
    /\ call.op = "search_procedures"
    /\ call.query = <<"n","o","n","e">>
    /\ result.status = "ok"
    /\ \E k \in 1..Len(result.value) : result.value[k].description = None

\* where the procedure of that name is in the dict
PlaceOf(name) == CHOOSE i \in 1..Len(procedures) : procedures[i].name = name

\* C24: every procedure has usage_count 0, and the procedures that
\* search_procedures returns are in the order in which their names were first
\* inserted, which is their order in the dict.
C24_UnusedAndInInsertionOrder ==
    /\ \A i \in 1..Len(procedures) : procedures[i].usage_count = 0
    /\ (call.op = "search_procedures" /\ result.status = "ok") =>
          /\ Len(result.value) <= call.limit
          /\ \A k \in 1..Len(result.value) :
                /\ \E i \in 1..Len(procedures) : procedures[i] = result.value[k]
                /\ result.value[k].usage_count = 0
          /\ \A k, l \in 1..Len(result.value) :
                k < l => PlaceOf(result.value[k].name) < PlaceOf(result.value[l].name)

\* of three procedures a search has returned the first and the third, in this order
C24_Witness ==
    /\ call.op = "search_procedures"
    /\ result.status = "ok"
    /\ Len(procedures) = 3
    /\ Len(result.value) = 2
    /\ result.value[1] = procedures[1]
    /\ result.value[2] = procedures[3]

----------------------------------------------------------------------------
(* A chat longer than the working memory *)

\* C25: when only add_conversation has filled the working memory and ten or more
\* conversations have been added, the working memory holds ten items, the
\* 'User: ...' items of the ten most recent conversations from the oldest to
\* the most recent, each of importance 1.0, and no 'Agent: ...' item.
C25_TenUserItems ==
    Len(conversations) >= 10 =>
        LET n == Len(conversations)
        IN /\ Len(working_memory) = 10
           /\ \A i \in 1..10 :
                 /\ working_memory[i].content =
                       <<"U","s","e","r",":"," ">> \o conversations[n - 10 + i].user_message
                 /\ working_memory[i].importance = 10
                 /\ working_memory[i].timestamp >= conversations[n - 10 + i].timestamp
           /\ \A i \in 1..9 : working_memory[i].timestamp <= working_memory[i + 1].timestamp

\* twelve conversations were added, the first and the eleventh of 'x', and the
\* clock moved: the ninth of the ten items is 'User: x'
C25_Witness ==
    /\ call.op = "add_conversation"
    /\ Len(conversations) = 12
    /\ conversations[1].user_message = <<"x">>
    /\ conversations[11].user_message = <<"x">>
    /\ working_memory[9].content = <<"U","s","e","r",":"," ","x">>
    /\ working_memory[10].content = <<"U","s","e","r",":"," ","h","i">>
    /\ working_memory[1].timestamp < working_memory[10].timestamp
    /\ Len(old.working_memory) = 10

----------------------------------------------------------------------------
(* Agents constructed on one directory *)

\* C26: with no write but those of the constructions, the facts are the four
\* seed facts in their order, repeated, and the facts file holds them all;
\* every construction of an agent adds four facts to those that were there, and
\* no other step changes the facts: after k constructions there are 4k.
C26_FourSeedsPerConstruction ==
    /\ [](/\ Len(facts) % 4 = 0
          /\ Len(facts) >= 4
          /\ \A i \in 1..Len(facts) : facts[i].content = SeedFacts[((i - 1) % 4) + 1]
          /\ HoldsAll(facts_file, "array", facts))
    /\ [][IF call'.op = "OpenAIAgent"
          THEN /\ Len(facts') = Len(facts) + 4
               /\ SubSeq(facts', 1, Len(facts)) = facts
          ELSE facts' = facts /\ facts_file' = facts_file]_vars

\* the third agent was constructed on the directory: twelve facts, each seed
\* three times
C26_Witness ==
    /\ call.op = "OpenAIAgent"
    /\ result.status = "ok"
    /\ Len(facts) = 12
    /\ Len(old.facts) = 8
    /\ \A i \in 1..4 :
          Cardinality({j \in 1..Len(facts) : facts[j].content = SeedFacts[i]}) = 3

----------------------------------------------------------------------------
(* Writes that fail *)

\* the facts that a store holds, as facts_semantic.json holds them
FactsOnFile(fs) == save_json("list", fs).items

\* a call of add_fact on either store that has returned
AddedOnEither ==
    /\ call.op \in {"add_fact", "second.add_fact"}
    /\ result.status = "ok"

\* C27: when two stores are open on the same storage directory and their
\* add_fact calls interleave in any order, every fact added through either store
\* is in facts_semantic.json after the last write has completed.
C27_NoLostUpdate ==
    (second.open /\ AddedOnEither) =>
        /\ \A i \in 1..Len(facts) :
              \E k \in 1..Len(facts_file.items) :
                  facts_file.items[k] = FactsOnFile(facts)[i]
        /\ \A i \in 1..Len(second.facts) :
              \E k \in 1..Len(facts_file.items) :
                  facts_file.items[k] = FactsOnFile(second.facts)[i]

\* C27 (amended): after the last write has completed the file holds the facts of
\* the store that wrote last, those it loaded when it was constructed and those
\* added through it, and nothing else: a fact added through the other store
\* after that construction is lost.
C27_LastWriterWins ==
    /\ (call.op = "add_fact" /\ result.status = "ok") =>
           facts_file = save_json("list", facts)
    /\ (call.op = "second.add_fact" /\ result.status = "ok") =>
           facts_file = save_json("list", second.facts)

\* the first store has added 'Tea' after the second store was opened, the second
\* store has then added 'Pot', and the file holds 'Pot' alone
C27_Witness ==
    /\ call.op = "second.add_fact"
    /\ result.status = "ok"
    /\ Len(facts) = 1
    /\ facts[1].content = s_Tea
    /\ Len(second.facts) = 1
    /\ second.facts[1].content = s_Pot
    /\ Len(facts_file.items) = 1
    /\ facts_file.items[1].content = s_Pot

\* the last call was add_fact, add_procedure or add_conversation and the write
\* of its file failed
WriteFailed ==
    /\ call.op \in {"add_fact", "add_procedure", "add_conversation"}
    /\ result = RaisedOSError

\* C28: after add_fact, add_procedure or add_conversation has failed to write
\* its file, the facts, the procedures, the conversations and the working
\* memory of the store are what they were before the call.
C28_FailedWriteChangesNothing ==
    WriteFailed =>
        /\ facts = old.facts
        /\ procedures = old.procedures
        /\ conversations = old.conversations
        /\ working_memory = old.working_memory

\* what holds of the code: the collection of the call has the new entry, which
\* its file has not; the other collections, their files and the working memory
\* are what they were
C28_FailedWriteKeepsEntry ==
    WriteFailed =>
        /\ working_memory = old.working_memory
        /\ call.op = "add_fact" =>
              /\ Len(facts) = Len(old.facts) + 1
              /\ facts[Len(facts)].content = call.content
              /\ ~ HoldsAll(facts_file, "array", facts)
              /\ procedures = old.procedures /\ conversations = old.conversations
              /\ procedures_file = old.procedures_file
              /\ conversations_file = old.conversations_file
        /\ call.op = "add_procedure" =>
              /\ \E i \in 1..Len(procedures) : procedures[i].name = call.name
              /\ ~ HoldsAll(procedures_file, "object", procedures)
                    \/ procedures = old.procedures
              /\ facts = old.facts /\ conversations = old.conversations
              /\ facts_file = old.facts_file
              /\ conversations_file = old.conversations_file
        /\ call.op = "add_conversation" =>
              /\ Len(conversations) = Len(old.conversations) + 1
              /\ conversations[Len(conversations)].user_message = call.user_message
              /\ ~ HoldsAll(conversations_file, "array", conversations)
              /\ facts = old.facts /\ procedures = old.procedures
              /\ facts_file = old.facts_file
              /\ procedures_file = old.procedures_file

\* a second fact is in memory after its write failed, and the file holds one
C28_UnsavedFact ==
    /\ call.op = "add_fact"
    /\ result = RaisedOSError
    /\ Len(facts) = 2
    /\ Len(old.facts) = 1
    /\ HoldsAll(facts_file, "array", old.facts)

----------------------------------------------------------------------------
(* The types of the loaded collections *)

\* C29: whatever the backing files hold, a store that has been constructed has
\* a list of facts, a dict of procedures and a list of conversations, and a
\* call of add_fact or add_procedure on it does not raise.
C29_LoadedTypesFit ==
    /\ alive => pytype = [facts |-> "list", procedures |-> "dict",
                          conversations |-> "list"]
    /\ call.op \in {"add_fact", "add_procedure"} => result.status = "ok"

\* what holds of the code: a file that is missing or is no JSON text gives the
\* type of the default, and a file of JSON gives the type of its document
C29_TypeOfTheDocument ==
    call.op = "__init__" /\ alive =>
        /\ old.facts_file.kind \in {"missing", "invalid"} => pytype.facts = "list"
        /\ old.procedures_file.kind \in {"missing", "invalid"} => pytype.procedures = "dict"
        /\ old.conversations_file.kind \in {"missing", "invalid"} =>
              pytype.conversations = "list"
        /\ (old.facts_file.kind = "json" /\ old.facts_file.type = "null") =>
              pytype.facts = "NoneType"
        /\ (old.facts_file.kind = "json" /\ old.facts_file.type = "object") =>
              pytype.facts = "dict"
        /\ (old.procedures_file.kind = "json" /\ old.procedures_file.type = "array") =>
              pytype.procedures = "list"

\* add_fact has raised on a store whose facts file held the JSON text null
C29_AddOnNone ==
    /\ call.op = "add_fact"
    /\ result.status = "raised"
    /\ pytype.facts = "NoneType"
    /\ facts_file = [kind |-> "json", type |-> "null", items |-> <<>>]

----------------------------------------------------------------------------
(* The cache of the scraper *)

\* the last call was a handle_search that requested the page and saved its
\* cleaned content under /tmp
FetchedAndSaved ==
    /\ call.op = "handle_search"
    /\ result.value.key = "results"
    /\ result.value.value.type = "dict"

\* the last call was a handle_search that answered from the files of /tmp
ServedFromTmp ==
    /\ call.op = "handle_search"
    /\ result.value.key = "results"
    /\ result.value.value.type = "list"

\* C30: once handle_search has fetched a URL and saved its cleaned content under
\* /tmp, a handle_search for the same URL that follows it, /tmp untouched in
\* between, returns the saved content from /tmp and neither empties /tmp nor
\* requests the page again.
C30_CacheHit ==
    [][ ( /\ FetchedAndSaved
          /\ call'.op = "handle_search"
          /\ call'.input_url # <<>>
          /\ NormalUrl(call'.input_url) = result.value.value.url )
        => /\ result'.value.key = "results"
           /\ result'.value.value.type = "list"
           /\ result'.value.value.items =
                 <<(CHOOSE f \in tmp : f.name = FileNameOf(result.value.value.url)).content>>
           /\ tmp' = tmp
           /\ fetched' = fetched ]_vars

\* what holds of the code: no handle_search is answered from /tmp, whatever
\* /tmp holds, since the query is a URL with '//' in it and a file name has no '/'
C30_NeverServedFromTmp == ~ ServedFromTmp

\* the same URL has been requested twice in a row, the second time although its
\* cleaned content was in /tmp under the name that the first search gave it
C30_FetchedAgain ==
    /\ FetchedAndSaved
    /\ Len(fetched) = 2
    /\ fetched[1] = u_http_e_co
    /\ fetched[2] = u_http_e_co
    /\ tmp = {[name |-> n_e_co_txt, content |-> <<"T","e","a","\n","p","o","t","\n","h","o","t">>]}

============================================================================
